---- MODULE Spec2Model ----
(***************************************************************************)
(* A model of the WAM compiler and interpreter of wam-prolog.              *)
(*                                                                         *)
(* The compiler state (instructions, call map, descriptor table) and the   *)
(* interpreter state (heap, registers, trail, the two raw frame stacks,    *)
(* instruction pointer ...) are the two record variables `compiler` and    *)
(* `interpreter`; every Rust method is an operator from a state record to  *)
(* a state record, and every driver-visible operation is an action.        *)
(* All Rust indices are 0-based; TLA+ sequences are 1-based, so the        *)
(* element with Rust index i of a vector v is v[i + 1].                   *)
(***************************************************************************)
EXTENDS Integers, Sequences, FiniteSets, TLC

VARIABLES
    input,        \* the clauses and the query handed to the compiler
    added,        \* per clause added so far, the address its code starts at
    phase,        \* "compiling", "running", or "panicked" (the compiler panicked)
    compiler,     \* the Compiler
    interpreter,  \* the Interpreter (meaningful once phase = "running")
    shadow,       \* per live choice point, the machine TryMeElse found and next_clause
    frames,       \* per rule invocation under way, what its Allocate found
    iterator,     \* a traversal of one term under way, and what it has yielded
    last,         \* the last call on the interpreter, what it returned, trail entries undone
    solutions,    \* what the driver loop has recorded
    driver        \* the position of the driver loop

vars == <<input, added, phase, compiler, interpreter, shadow, frames, iterator, last, solutions, driver>>

(***************************************************************************)
(* Generic helpers                                                         *)
(***************************************************************************)
At(seq, i) == seq[i + 1]

Put(seq, i, v) == [seq EXCEPT ![i + 1] = v]

Max(a, b) == IF a > b THEN a ELSE b

Range(seq) == {seq[i] : i \in 1..Len(seq)}

Reverse(seq) == [i \in 1..Len(seq) |-> seq[Len(seq) + 1 - i]]

RECURSIVE Concat(_)
Concat(seqs) == IF seqs = <<>> THEN <<>> ELSE Head(seqs) \o Concat(Tail(seqs))

RECURSIVE BitOr(_, _)
BitOr(a, b) ==
    IF a = 0 THEN b
    ELSE IF b = 0 THEN a
    ELSE (IF a % 2 = 1 \/ b % 2 = 1 THEN 1 ELSE 0) + 2 * BitOr(a \div 2, b \div 2)

(***************************************************************************)
(* parsing.rs: the abstract term tree                                      *)
(***************************************************************************)
Variable(name) == [kind |-> "Variable", name |-> name, args |-> <<>>]

Constant(name) == [kind |-> "Constant", name |-> name, args |-> <<>>]

Structure(name, args) == [kind |-> "Structure", name |-> name, args |-> args]

Fact(term) == [clause |-> "Fact", head |-> term, goals |-> <<>>]

Rule(head, goals) == [clause |-> "Rule", head |-> head, goals |-> goals]

TermArity(term) == IF term.kind = "Structure" THEN Len(term.args) ELSE 0

(***************************************************************************)
(* instructions.rs                                                         *)
(***************************************************************************)
Argument(i) == [k |-> "Argument", i |-> i]

Temporary(i) == [k |-> "Temporary", i |-> i]

Permanent(i) == [k |-> "Permanent", i |-> i]

\* Option::None of an Option<RegisterId>, and the unused register slot of an
\* instruction that has fewer than two registers.
NoRegister == [k |-> "None", i |-> 0]

Instr(op, id, reg, var, addr) ==
    [op |-> op, id |-> id, reg |-> reg, var |-> var, addr |-> addr]

PutStructure(structure, register) == Instr("PutStructure", structure, register, NoRegister, 0)

PutVariable(argument_register, variable_register) ==
    Instr("PutVariable", 0, argument_register, variable_register, 0)

PutValue(argument_register, value_register) ==
    Instr("PutValue", 0, argument_register, value_register, 0)

SetVariable(register) == Instr("SetVariable", 0, register, NoRegister, 0)

SetValue(register) == Instr("SetValue", 0, register, NoRegister, 0)

DebugComment == Instr("DebugComment", 0, NoRegister, NoRegister, 0)

GetStructure(structure, register) == Instr("GetStructure", structure, register, NoRegister, 0)

GetVariable(argument_register, variable_register) ==
    Instr("GetVariable", 0, argument_register, variable_register, 0)

GetValue(argument_register, value_register) ==
    Instr("GetValue", 0, argument_register, value_register, 0)

UnifyVariable(register) == Instr("UnifyVariable", 0, register, NoRegister, 0)

UnifyValue(register) == Instr("UnifyValue", 0, register, NoRegister, 0)

Call(address, functor) == Instr("Call", functor, NoRegister, NoRegister, address)

\* An Allocate that asks for no permanent slot, whatever the rule needs.
Allocate_none(variables) == Instr("Allocate", 0, NoRegister, NoRegister, 0)

Allocate(variables) == Instr("Allocate", 0, NoRegister, NoRegister, variables)

Deallocate == Instr("Deallocate", 0, NoRegister, NoRegister, 0)

Proceed == Instr("Proceed", 0, NoRegister, NoRegister, 0)

TryMeElse(else_address) == Instr("TryMeElse", 0, NoRegister, NoRegister, else_address)

RetryMeElse(else_address) == Instr("RetryMeElse", 0, NoRegister, NoRegister, else_address)

TrustMe == Instr("TrustMe", 0, NoRegister, NoRegister, 0)

NoOp == Instr("NoOp", 0, NoRegister, NoRegister, 0)

(***************************************************************************)
(* descriptor.rs                                                           *)
(***************************************************************************)
\* An interning key that forgets the kind and the arity of a term.
DescriptorIdentifier_by_name(term) == [name |-> term.name, functor |-> TRUE, arity |-> 0]

DescriptorIdentifier(term) ==
    [name |-> term.name, functor |-> term.kind # "Variable", arity |-> TermArity(term)]

TermDescriptor(term) ==
    [name |-> term.name,
     kind |-> IF term.kind = "Variable" THEN "Variable" ELSE "Functor",
     arity |-> TermArity(term)]

DescriptorAllocatorDefault == [descriptor_map |-> {}, descriptors |-> <<>>]

HasDescriptor(da, term) ==
    \E e \in da.descriptor_map : e.key = DescriptorIdentifier(term)

\* The DescriptorId get_or_set returns for a term that is interned already.
DescriptorOf(da, term) ==
    (CHOOSE e \in da.descriptor_map : e.key = DescriptorIdentifier(term)).id

get_or_set(da, term) ==
    IF HasDescriptor(da, term) THEN da
    ELSE [descriptor_map |-> da.descriptor_map \cup
                {[key |-> DescriptorIdentifier(term), id |-> Len(da.descriptors)]},
          descriptors |-> Append(da.descriptors, TermDescriptor(term))]

RECURSIVE InternAll(_, _)
InternAll(da, terms) ==
    IF terms = <<>> THEN da ELSE InternAll(get_or_set(da, Head(terms)), Tail(terms))

arity(descriptors, id) ==
    IF At(descriptors, id).kind = "Functor" THEN At(descriptors, id).arity ELSE 0

(***************************************************************************)
(* traversal.rs                                                            *)
(***************************************************************************)
\* parent << 4 | argument_index.  The shift drops bits only from nesting depth 16
\* on (usize is 64 bits wide); the terms of this model are far shallower.
generate_term_id(parent, argument_index) == BitOr(parent * 16, argument_index)

AbstractTermItem(term, level, argument_index, id) ==
    [term |-> term, level |-> level, argument_index |-> argument_index, id |-> id]

RootItem(root) == AbstractTermItem(root, 0, 0, 1)

Children(item) ==
    [i \in 1..Len(item.term.args) |->
        AbstractTermItem(item.term.args[i], item.level + 1, i - 1,
                         generate_term_id(item.id, i - 1))]

RECURSIVE FactIteratorRun(_, _)
FactIteratorRun(queue, out) ==
    IF queue = <<>> THEN out
    ELSE LET term == Head(queue) IN
         IF term.term.kind = "Structure"
         THEN IF term.level = 0
              THEN FactIteratorRun(Tail(queue) \o Children(term), out)
              ELSE FactIteratorRun(Tail(queue) \o Children(term), Append(out, term))
         ELSE FactIteratorRun(Tail(queue), Append(out, term))

FactIterator(root) == FactIteratorRun(<<RootItem(root)>>, <<>>)

RECURSIVE QueryIteratorRun(_, _, _)
QueryIteratorRun(queue, declared, out) ==
    IF queue = <<>> THEN out
    ELSE LET term == Head(queue) IN
         IF term.term.kind = "Structure"
         THEN LET has_declared_all ==
                    \A index \in 0..(Len(term.term.args) - 1) :
                        generate_term_id(term.id, index) \in declared
              IN IF has_declared_all
                 THEN IF term.level > 0
                      THEN QueryIteratorRun(Tail(queue), declared \cup {term.id},
                                            Append(out, term))
                      ELSE QueryIteratorRun(Tail(queue), declared \cup {term.id}, out)
                 ELSE QueryIteratorRun(Children(term) \o queue, declared, out)
         ELSE QueryIteratorRun(Tail(queue), declared \cup {term.id}, Append(out, term))

QueryIterator(root) == QueryIteratorRun(<<RootItem(root)>>, {}, <<>>)

RECURSIVE DepthFirstIteratorRun(_, _)
DepthFirstIteratorRun(stack, out) ==
    IF stack = <<>> THEN out
    ELSE LET term == stack[Len(stack)]
             rest == SubSeq(stack, 1, Len(stack) - 1)
         IN IF term.term.kind = "Structure"
            THEN IF term.level = 0
                 THEN DepthFirstIteratorRun(rest \o Reverse(Children(term)), out)
                 ELSE DepthFirstIteratorRun(rest \o Reverse(Children(term)),
                                            Append(out, term))
            ELSE DepthFirstIteratorRun(rest, Append(out, term))

DepthFirstIterator(root) == DepthFirstIteratorRun(<<RootItem(root)>>, <<>>)

\* One call of next() on an iterator: the queue (and declared set) it leaves and
\* the item it returns, if any.
Yield(queue, declared, item) ==
    [queue |-> queue, declared |-> declared, some |-> TRUE, item |-> item]

Exhausted(declared) ==
    [queue |-> <<>>, declared |-> declared, some |-> FALSE, item |-> RootItem(Constant(""))]

\* FactIterator::next
RECURSIVE FactIteratorNext(_)
FactIteratorNext(queue) ==
    IF queue = <<>> THEN Exhausted({})
    ELSE LET term == Head(queue) IN
         IF term.term.kind = "Structure"
         THEN IF term.level = 0
              THEN FactIteratorNext(Tail(queue) \o Children(term))
              ELSE Yield(Tail(queue) \o Children(term), {}, term)
         ELSE Yield(Tail(queue), {}, term)

\* QueryIterator::next
RECURSIVE QueryIteratorNext(_, _)
QueryIteratorNext(queue, declared) ==
    IF queue = <<>> THEN Exhausted(declared)
    ELSE LET term == Head(queue) IN
         IF term.term.kind = "Structure"
         THEN LET has_declared_all ==
                    \A index \in 0..(Len(term.term.args) - 1) :
                        generate_term_id(term.id, index) \in declared
              IN IF has_declared_all
                 THEN IF term.level > 0
                      THEN Yield(Tail(queue), declared \cup {term.id}, term)
                      ELSE QueryIteratorNext(Tail(queue), declared \cup {term.id})
                 ELSE QueryIteratorNext(Children(term) \o queue, declared)
         ELSE Yield(Tail(queue), declared \cup {term.id}, term)

\* DepthFirstIterator::next; the Vec is used as a stack, its top is the last element
RECURSIVE DepthFirstIteratorNext(_)
DepthFirstIteratorNext(stack) ==
    IF stack = <<>> THEN Exhausted({})
    ELSE LET term == stack[Len(stack)]
             rest == SubSeq(stack, 1, Len(stack) - 1)
         IN IF term.term.kind = "Structure"
            THEN IF term.level = 0
                 THEN DepthFirstIteratorNext(rest \o Reverse(Children(term)))
                 ELSE Yield(rest \o Reverse(Children(term)), {}, term)
            ELSE Yield(rest, {}, term)

\* CompileTarget::get_ordered_iterator for ProgramTarget and QueryTarget.
get_ordered_iterator(target, root) ==
    IF target = "Program" THEN FactIterator(root) ELSE QueryIterator(root)

(***************************************************************************)
(* compiler.rs: RegistryAllocator                                          *)
(***************************************************************************)
\* RegisterIdentifier::Variable(DescriptorId) / NonVariable(term id)
RegisterIdentifier(da, item) ==
    IF item.term.kind = "Variable"
    THEN [variable |-> TRUE, n |-> DescriptorOf(da, item.term)]
    ELSE [variable |-> FALSE, n |-> item.id]

HasAllocation(registry_map, identifier) ==
    \E e \in registry_map : e.identifier = identifier

Allocation(registry_map, identifier) ==
    CHOOSE e \in registry_map : e.identifier = identifier

\* One iteration of the loop of RegistryAllocator::new.  `st` holds registry_map
\* and child_index; permanent_variables is a function DescriptorId -> slot.
RegistryAllocatorVisit(st, da, permanent_variables, term) ==
    LET needs_argument_register == term.level = 1
        needs_register ==
            IF term.term.kind \in {"Variable", "Constant"} THEN TRUE ELSE term.level # 1
        descriptor_id == DescriptorOf(da, term.term)
        register_identifier == RegisterIdentifier(da, term)
        old == IF HasAllocation(st.registry_map, register_identifier)
               THEN Allocation(st.registry_map, register_identifier)
               ELSE [identifier |-> register_identifier, register |-> NoRegister,
                     argument_register |-> {}]
        allocate == needs_register /\ old.register = NoRegister
        is_permanent == descriptor_id \in DOMAIN permanent_variables
        register ==
            IF ~allocate THEN old.register
            ELSE IF is_permanent THEN Permanent(permanent_variables[descriptor_id])
            ELSE Temporary(st.child_index)
        argument_register ==
            IF needs_argument_register
            THEN old.argument_register \cup {Argument(term.argument_index)}
            ELSE old.argument_register
        new == [identifier |-> register_identifier, register |-> register,
                argument_register |-> argument_register]
    IN [registry_map |-> (st.registry_map \ {old}) \cup {new},
        child_index |-> IF allocate /\ ~is_permanent
                        THEN st.child_index + 1 ELSE st.child_index]

RECURSIVE RegistryAllocatorLoop(_, _, _, _)
RegistryAllocatorLoop(st, da, permanent_variables, items) ==
    IF items = <<>> THEN st
    ELSE RegistryAllocatorLoop(
             RegistryAllocatorVisit(st, da, permanent_variables, Head(items)),
             da, permanent_variables, Tail(items))

\* RegistryAllocator::new; `da` already holds every term of `items` (new interns
\* them in iteration order, see InternItems).  registry_ordered_list is used for
\* its length only, which is child_index.
RegistryAllocatorNew(items, root, da, permanent_variables) ==
    RegistryAllocatorLoop([registry_map |-> {}, child_index |-> TermArity(root)],
                          da, permanent_variables, items)

InternItems(da, items) == InternAll(da, [i \in 1..Len(items) |-> items[i].term])

get_register(allocator, da, item) ==
    Allocation(allocator.registry_map, RegisterIdentifier(da, item))

get_register_raw(allocator, da, term, parent_id, argument_index) ==
    Allocation(allocator.registry_map,
               RegisterIdentifier(da, AbstractTermItem(term, 0, argument_index,
                                      generate_term_id(parent_id, argument_index))))

get_register_id(allocation, level, argument_index) ==
    IF level = 1 THEN Argument(argument_index) ELSE allocation.register

(***************************************************************************)
(* compiler.rs: CompileTarget for ProgramTarget and QueryTarget            *)
(***************************************************************************)
instruction_for_structure(target, descriptor_id, register) ==
    IF target = "Program" THEN GetStructure(descriptor_id, register)
    ELSE PutStructure(descriptor_id, register)

instruction_for_value_argument(target, argument, value) ==
    IF target = "Program" THEN GetValue(argument, value) ELSE PutValue(argument, value)

instruction_for_variable_argument(target, argument, variable) ==
    IF target = "Program" THEN GetVariable(argument, variable)
    ELSE PutVariable(argument, variable)

instruction_for_value(target, register) ==
    IF target = "Program" THEN UnifyValue(register) ELSE SetValue(register)

instruction_for_variable(target, register) ==
    IF target = "Program" THEN UnifyVariable(register) ELSE SetVariable(register)

instruction_for_sub_argument(target, register) ==
    IF target = "Program" THEN UnifyVariable(register) ELSE SetValue(register)

(***************************************************************************)
(* compiler.rs: Compiler::compile_for_target                               *)
(***************************************************************************)
\* The inner loop over the sub terms of a structure item; st holds
\* instructions and processed_vars.
RECURSIVE CompileSubTerms(_, _, _, _, _, _)
CompileSubTerms(st, target, allocator, da, term, sub_term_index) ==
    IF sub_term_index >= Len(term.term.args) THEN st
    ELSE LET sub_term == At(term.term.args, sub_term_index)
             sub_descriptor_id == DescriptorOf(da, sub_term)
             sub_register_allocation ==
                 get_register_raw(allocator, da, sub_term, term.id, sub_term_index)
             was_processed == sub_descriptor_id \in st.processed_vars
             instruction ==
                 IF sub_term.kind = "Variable"
                 THEN IF was_processed
                      THEN instruction_for_value(target, sub_register_allocation.register)
                      ELSE instruction_for_variable(target, sub_register_allocation.register)
                 ELSE instruction_for_sub_argument(target, sub_register_allocation.register)
         IN CompileSubTerms(
                [instructions |-> Append(st.instructions, instruction),
                 processed_vars |-> st.processed_vars \cup {sub_descriptor_id}],
                target, allocator, da, term, sub_term_index + 1)

CompileItem(st, target, allocator, da, term) ==
    LET descriptor_id == DescriptorOf(da, term.term)
        register_allocation == get_register(allocator, da, term)
        was_processed == descriptor_id \in st.processed_vars
    IN CASE term.term.kind = "Variable" /\ term.level = 1 ->
              [instructions |-> Append(st.instructions,
                   IF was_processed
                   THEN instruction_for_value_argument(target,
                            Argument(term.argument_index), register_allocation.register)
                   ELSE instruction_for_variable_argument(target,
                            Argument(term.argument_index), register_allocation.register)),
               processed_vars |-> st.processed_vars \cup {descriptor_id}]
         [] term.term.kind = "Constant" ->
              [instructions |-> Append(st.instructions,
                   instruction_for_structure(target, descriptor_id,
                       get_register_id(register_allocation, term.level,
                                       term.argument_index))),
               processed_vars |-> st.processed_vars \cup {descriptor_id}]
         [] term.term.kind = "Structure" ->
              CompileSubTerms(
                  [instructions |-> Append(st.instructions,
                       instruction_for_structure(target, descriptor_id,
                           get_register_id(register_allocation, term.level,
                                           term.argument_index))),
                   processed_vars |-> st.processed_vars],
                  target, allocator, da, term, 0)
         [] OTHER -> st

RECURSIVE CompileItems(_, _, _, _, _)
CompileItems(st, target, allocator, da, items) ==
    IF items = <<>> THEN st
    ELSE CompileItems(CompileItem(st, target, allocator, da, Head(items)),
                      target, allocator, da, Tail(items))

\* Returns the IntermediateCompileArtifact (instructions, register_allocator)
\* together with the descriptor allocator and processed_vars it leaves behind.
compile_for_target(target, root, da0, permanent_variables, processed_vars) ==
    LET items == get_ordered_iterator(target, root)
        da == InternItems(da0, items)
        allocator == RegistryAllocatorNew(items, root, da, permanent_variables)
        done == CompileItems([instructions |-> <<>>, processed_vars |-> processed_vars],
                             target, allocator, da, items)
    IN [instructions |-> done.instructions,
        processed_vars |-> done.processed_vars,
        register_allocator |-> allocator,
        descriptor_allocator |-> da]

(***************************************************************************)
(* compiler.rs: permanent variables                                        *)
(***************************************************************************)
ItemTerms(items) == [i \in 1..Len(items) |-> items[i].term]

VariablesOf(terms) ==
    {terms[i] : i \in {j \in 1..Len(terms) : terms[j].kind = "Variable"}}

\* relevant_term_groups: the head together with the first goal, then every
\* later goal on its own.
relevant_term_groups(rule) ==
    <<ItemTerms(DepthFirstIterator(rule.head)) \o
      (IF rule.goals = <<>> THEN <<>> ELSE ItemTerms(DepthFirstIterator(rule.goals[1])))>>
    \o [g \in 1..(Len(rule.goals) - 1) |-> ItemTerms(DepthFirstIterator(rule.goals[g + 1]))]

IsVariable(term) == term.kind = "Variable"

\* The variables prepare_permanent_variables interns, in its iteration order.
RuleVariables(rule) == SelectSeq(Concat(relevant_term_groups(rule)), IsVariable)

\* A classification that keeps every variable of the rule, whatever its groups.
PermanentIds_all(rule, da) ==
    {DescriptorOf(da, v) : v \in VariablesOf(Concat(relevant_term_groups(rule)))}

\* The descriptor ids of the variables that occur in more than one group.
PermanentIds(rule, da) ==
    LET groups == relevant_term_groups(rule)
        occurance(v) == {g \in 1..Len(groups) : v \in VariablesOf(groups[g])}
    IN {DescriptorOf(da, v) :
            v \in {w \in UNION {VariablesOf(groups[g]) : g \in 1..Len(groups)} :
                       Cardinality(occurance(w)) > 1}}

\* prepare_permanent_variables numbers the permanent variables in the iteration
\* order of a std HashMap, which the language leaves unspecified: every
\* bijection onto 0..p-1 is a possible outcome.
PermanentAssignments(ids) ==
    {f \in [ids -> 0..(Cardinality(ids) - 1)] :
        \A a, b \in ids : a # b => f[a] # f[b]}

(***************************************************************************)
(* compiler.rs: Compiler                                                   *)
(***************************************************************************)
CompilerNew ==
    [instructions |-> <<>>,
     fact_call_map |-> {},
     descriptor_allocator |-> DescriptorAllocatorDefault,
     max_registers |-> 0,
     panicked |-> FALSE]

HasCallAddress(fact_call_map, descriptor_id) ==
    \E e \in fact_call_map : e.key = descriptor_id

\* A lookup that answers with the address after the recorded one.
CallAddress_after(fact_call_map, descriptor_id) ==
    (CHOOSE e \in fact_call_map : e.key = descriptor_id).address + 1

CallAddress(fact_call_map, descriptor_id) ==
    (CHOOSE e \in fact_call_map : e.key = descriptor_id).address

\* The address of the last clause block of the chain that starts at `address`.
RECURSIVE LastClause(_, _)
LastClause(instructions, address) ==
    IF At(instructions, address).op \in {"TryMeElse", "RetryMeElse"}
    THEN LastClause(instructions, At(instructions, address).addr)
    ELSE address

\* Recording the newest clause as the functor's only entry, as a plain
\* fact_call_map.insert(root_descriptor_id, instructions.len()) does.
LinkClauseOverwrite(c, root_descriptor_id) ==
    [c EXCEPT !.fact_call_map =
                  {e \in @ : e.key # root_descriptor_id}
                      \cup {[key |-> root_descriptor_id, address |-> Len(c.instructions)]},
              !.instructions = Append(@, NoOp)]

\* Multi-clause linking.  Every clause block starts with one slot: NoOp while the
\* functor has a single clause; when a further clause of the functor arrives the
\* slot of the previously last clause becomes TryMeElse (first clause) or
\* RetryMeElse (a later one), both pointing at the new block, whose slot is
\* TrustMe.  The call address of the functor is recorded on first occurrence.
LinkClause(c, root_descriptor_id) ==
    LET here == Len(c.instructions) IN
    IF ~HasCallAddress(c.fact_call_map, root_descriptor_id)
    THEN [c EXCEPT !.fact_call_map = @ \cup {[key |-> root_descriptor_id, address |-> here]},
                   !.instructions = Append(@, NoOp)]
    ELSE LET first == CallAddress(c.fact_call_map, root_descriptor_id)
             prev == LastClause(c.instructions, first)
         IN [c EXCEPT !.instructions =
                Append(Put(@, prev, IF prev = first THEN TryMeElse(here)
                                    ELSE RetryMeElse(here)),
                       TrustMe)]

\* add_fact that records the clause as the functor's entry and wraps nothing.
add_fact_unlinked(c0, fact) ==
    LET da1 == get_or_set(c0.descriptor_allocator, fact.head)
        Emit(c, artifact) ==
            [c EXCEPT !.instructions = Append(@, DebugComment) \o artifact.instructions
                                           \o <<Proceed>>,
                      !.descriptor_allocator = artifact.descriptor_allocator,
                      !.max_registers = Max(@, artifact.register_allocator.child_index)]
    IN Emit(LinkClauseOverwrite([c0 EXCEPT !.descriptor_allocator = da1],
                                DescriptorOf(da1, fact.head)),
            compile_for_target("Program", fact.head, da1, <<>>, {}))

add_fact(c0, fact) ==
    LET da1 == get_or_set(c0.descriptor_allocator, fact.head)
        Emit(c, artifact) ==
            [c EXCEPT !.instructions = Append(@, DebugComment) \o artifact.instructions
                                           \o <<Proceed>>,
                      !.descriptor_allocator = artifact.descriptor_allocator,
                      !.max_registers = Max(@, artifact.register_allocator.child_index)]
    IN Emit(LinkClause([c0 EXCEPT !.descriptor_allocator = da1],
                       DescriptorOf(da1, fact.head)),
            compile_for_target("Program", fact.head, da1, <<>>, {}))

\* The loop over the goals of add_rule.  st holds the compiler and processed.
RECURSIVE AddGoals(_, _, _, _)
AddGoals(st, permanent_variables, goals, i) ==
    IF i > Len(goals) \/ st.compiler.panicked THEN st
    ELSE LET c == st.compiler
             Emit(query, da, descriptor_id, found) ==
                 AddGoals(
                     [compiler |->
                         [c EXCEPT !.instructions =
                                       Append(@, DebugComment) \o query.instructions
                                           \o (IF found
                                               THEN <<Call(CallAddress(c.fact_call_map,
                                                                       descriptor_id),
                                                           descriptor_id)>>
                                               ELSE <<>>),
                                   !.descriptor_allocator = da,
                                   !.max_registers =
                                       Max(@, query.register_allocator.child_index),
                                   \* .expect("term to exist")
                                   !.panicked = ~found],
                      processed |-> query.processed_vars],
                     permanent_variables, goals, i + 1)
             Lookup(query, da, descriptor_id) ==
                 Emit(query, da, descriptor_id,
                      HasCallAddress(c.fact_call_map, descriptor_id))
             Named(query, da) == Lookup(query, da, DescriptorOf(da, goals[i]))
             Compiled(query) ==
                 Named(query, get_or_set(query.descriptor_allocator, goals[i]))
         IN Compiled(compile_for_target("Query", goals[i], c.descriptor_allocator,
                                        permanent_variables, st.processed))

\* add_rule, given the slot assignment prepare_permanent_variables produced.
add_rule(c0, rule, permanent_variables) ==
    LET da1 == get_or_set(InternAll(c0.descriptor_allocator, RuleVariables(rule)),
                          rule.head)
        Finish(done) ==
            IF done.compiler.panicked THEN done.compiler
            ELSE [done.compiler EXCEPT !.instructions = Append(@, Deallocate)]
        Body(c1, head) ==
            Finish(AddGoals(
                [compiler |->
                    [c1 EXCEPT !.instructions =
                                   @ \o <<DebugComment,
                                          Allocate(Cardinality(DOMAIN permanent_variables))>>
                                     \o head.instructions \o <<DebugComment>>,
                               !.descriptor_allocator = head.descriptor_allocator,
                               !.max_registers =
                                   Max(@, head.register_allocator.child_index)],
                 processed |-> head.processed_vars],
                permanent_variables, rule.goals, 1))
    IN Body(LinkClause([c0 EXCEPT !.descriptor_allocator = da1],
                       DescriptorOf(da1, rule.head)),
            compile_for_target("Program", rule.head, da1, permanent_variables, {}))

\* The permanent variables of a rule, as prepare_permanent_variables finds them.
RulePermanentIds(c, rule) ==
    PermanentIds(rule, InternAll(c.descriptor_allocator, RuleVariables(rule)))

\* The filter of compile without its unique_variables set: every occurrence stays.
UniqueVariables_all(items, seen) ==
    SelectSeq(items, LAMBDA item : item.term.kind = "Variable")

RECURSIVE UniqueVariables(_, _)
UniqueVariables(items, seen) ==
    IF items = <<>> THEN <<>>
    ELSE IF Head(items).term.kind = "Variable" /\ Head(items).term \notin seen
         THEN <<Head(items)>> \o UniqueVariables(Tail(items), seen \cup {Head(items).term})
         ELSE UniqueVariables(Tail(items), seen)

InspectionVariable(variable, register) == [variable |-> variable, register |-> register]

\* Compiler::compile: the compiler afterwards, and the CompileArtifact.
compile(c0, query) ==
    LET Watch(artifact, da, watched) ==
            [i \in 1..Len(watched) |->
                InspectionVariable(
                    DescriptorOf(da, watched[i].term),
                    get_register(artifact.register_allocator, da, watched[i]).register)]
        Emit(artifact, root_descriptor_id) ==
            [compiler |->
                [c0 EXCEPT !.instructions =
                               Append(@, DebugComment) \o artifact.instructions
                                   \o <<Call(CallAddress(c0.fact_call_map,
                                                         root_descriptor_id),
                                             root_descriptor_id)>>,
                           !.descriptor_allocator = artifact.descriptor_allocator,
                           !.max_registers =
                               Max(@, artifact.register_allocator.child_index)],
             start_instruction_index |-> Len(c0.instructions),
             inspection_variables |->
                 Watch(artifact, artifact.descriptor_allocator,
                       UniqueVariables(DepthFirstIterator(query), {}))]
        Named(da1, root_descriptor_id) ==
            \* .expect("term to exist")
            IF ~HasCallAddress(c0.fact_call_map, root_descriptor_id)
            THEN [compiler |-> [c0 EXCEPT !.descriptor_allocator = da1, !.panicked = TRUE],
                  start_instruction_index |-> 0,
                  inspection_variables |-> <<>>]
            ELSE Emit(compile_for_target("Query", query, da1, <<>>, {}),
                      root_descriptor_id)
        Interned(da1) == Named(da1, DescriptorOf(da1, query))
    IN Interned(get_or_set(c0.descriptor_allocator, query))

(***************************************************************************)
(* interpreter/mod.rs: cells and addresses                                 *)
(***************************************************************************)
CellStructureRef(index) == [tag |-> "StructureRef", v |-> index]

CellStructure(descriptor_id) == [tag |-> "Structure", v |-> descriptor_id]

CellReference(index) == [tag |-> "Reference", v |-> index]

CellUndefined == [tag |-> "Undefined", v |-> 0]

CellTags == {"StructureRef", "Structure", "Reference", "Undefined"}

RegisterAddress(register) == [loc |-> "Register", k |-> register.k, i |-> register.i]

GlobalStackAddress(index) == [loc |-> "GlobalStack", k |-> "Heap", i |-> index]

\* The result of an address computation that panics in the code (an index out
\* of range, index_num of a Permanent register, a Ref cycle that overflows the
\* call stack).
FaultAddress == [loc |-> "Fault", k |-> "Fault", i |-> 0]

RegisterOf(address) == [k |-> address.k, i |-> address.i]

(***************************************************************************)
(* The raw byte regions of the two frame stacks.  A region is a sequence   *)
(* of 8-byte words; bytes never written are zero.  A word remembers what   *)
(* was stored in it: a usize field of a frame head, or one half of a Cell  *)
(* (the enum tag, or the payload).  Reading a Cell from words that do not  *)
(* hold a whole Cell, or a usize from a tag word, reinterprets bytes the   *)
(* language gives no meaning to: the read returns the value `g` the caller *)
(* supplies, which the actions choose freely.                              *)
(***************************************************************************)
WordSize == 8

CellSize == 16

EnvironmentHeadSize == 24

ChoicePointHeadSize == 56

RawStackSize == 10240

ZeroWord == [w |-> "zero", v |-> 0]

UsizeWord(n) == [w |-> "usize", v |-> n]

CellWords(cell) == <<[w |-> cell.tag, v |-> cell.v], [w |-> "payload", v |-> cell.v]>>

ReadWord(raw, byte) ==
    IF byte \div WordSize < Len(raw) THEN raw[byte \div WordSize + 1] ELSE ZeroWord

WriteWords(raw, byte, words) ==
    LET first == byte \div WordSize
        n == Max(Len(raw), first + Len(words))
    IN [x \in 1..n |->
            IF x - 1 >= first /\ x - 1 < first + Len(words) THEN words[x - first]
            ELSE IF x <= Len(raw) THEN raw[x] ELSE ZeroWord]

HoldsUsize(raw, byte) == ReadWord(raw, byte).w \in {"usize", "zero", "payload"}

ReadUsize(raw, byte, g) ==
    IF HoldsUsize(raw, byte) THEN ReadWord(raw, byte).v ELSE g.v

HoldsCell(raw, byte) ==
    /\ ReadWord(raw, byte).w \in CellTags
    /\ ReadWord(raw, byte + WordSize).w = "payload"

ReadCell(raw, byte, g) ==
    IF HoldsCell(raw, byte)
    THEN [tag |-> ReadWord(raw, byte).w, v |-> ReadWord(raw, byte).v]
    ELSE g

\* The values a read of meaningless bytes is modelled to return.
GarbageIndex == 99

GarbageCells == {CellUndefined, CellStructureRef(0), CellReference(GarbageIndex)}

(***************************************************************************)
(* interpreter/environment.rs                                              *)
(***************************************************************************)
EnvironmentStackNew ==
    [raw_stack |-> <<>>, last_environment_address |-> 0, next_environment_address |-> 0]

\* Field offsets of EnvironmentHead.
EnvNumVariables == 0

EnvContinuation == 8

EnvPrevious == 16

EnvFrameSize(env, address, g) ==
    EnvironmentHeadSize + ReadUsize(env.raw_stack, address + EnvNumVariables, g) * CellSize

push_environment(env, num_variables, continuation_address) ==
    [raw_stack |-> WriteWords(env.raw_stack, env.next_environment_address,
                       <<UsizeWord(num_variables), UsizeWord(continuation_address),
                         UsizeWord(env.last_environment_address)>>),
     last_environment_address |-> env.next_environment_address,
     next_environment_address |->
         env.next_environment_address + EnvironmentHeadSize + num_variables * CellSize]

\* A pop that leaves the environment stack as it is.
pop_environment_keeps(env, g) == env

pop_environment(env, g) ==
    [env EXCEPT
        !.last_environment_address =
            ReadUsize(env.raw_stack, env.last_environment_address + EnvPrevious, g),
        !.next_environment_address =
            @ - EnvFrameSize(env, env.last_environment_address, g)]

EnvVariableOffset(env, index) ==
    env.last_environment_address + EnvironmentHeadSize + index * CellSize

get_variable(env, index, g) == ReadCell(env.raw_stack, EnvVariableOffset(env, index), g)

set_variable(env, index, cell) ==
    [env EXCEPT !.raw_stack = WriteWords(@, EnvVariableOffset(env, index), CellWords(cell))]

env_get_continuation(env, g) ==
    ReadUsize(env.raw_stack, env.last_environment_address + EnvContinuation, g)

\* The environment watermark a choice point saves: the top of the stack.
get_current_address(env) == env.next_environment_address

\* The frame of the stack that ends at `address`, searched from `frame` upwards.
RECURSIVE FrameBelow(_, _, _, _, _)
FrameBelow(env, frame, address, g, fuel) ==
    IF fuel = 0 \/ frame + EnvFrameSize(env, frame, g) >= address THEN frame
    ELSE FrameBelow(env, frame + EnvFrameSize(env, frame, g), address, g, fuel - 1)

\* Resets the stack pointer to a saved watermark: the top is the watermark again
\* and the current frame is the frame that ends there.
reset_to(env, address, g) ==
    [env EXCEPT
        !.next_environment_address = address,
        !.last_environment_address =
            IF address = 0 THEN 0
            ELSE FrameBelow(env, 0, address, g, address \div EnvironmentHeadSize)]

(***************************************************************************)
(* interpreter/choicepoint.rs                                              *)
(***************************************************************************)
ChoicePointStackNew == [raw_stack |-> <<>>, last_address |-> 0, next_address |-> 0]

\* Field offsets of ChoicePointHead.
CpNumArguments == 0

CpContinuation == 8

CpEnvironment == 16

CpPrevious == 24

CpNextInstruction == 32

CpTrail == 40

CpStack == 48

is_empty(cps) == cps.next_address = 0

push_choice_point(cps, num_arguments, continuation_address, environment_address, next_instruction_address, trail_address, stack_address) ==
    [raw_stack |-> WriteWords(cps.raw_stack, cps.next_address,
                       <<UsizeWord(num_arguments), UsizeWord(continuation_address),
                         UsizeWord(environment_address), UsizeWord(cps.last_address),
                         UsizeWord(next_instruction_address), UsizeWord(trail_address),
                         UsizeWord(stack_address)>>),
     last_address |-> cps.next_address,
     next_address |-> cps.next_address + ChoicePointHeadSize + num_arguments * CellSize]

CpField(cps, offset, g) == ReadUsize(cps.raw_stack, cps.last_address + offset, g)

\* A pop that forgets the saved argument cells when it moves the stack top down.
pop_choice_point_head_only(cps, g) ==
    [cps EXCEPT !.last_address = CpField(cps, CpPrevious, g),
                !.next_address = @ - ChoicePointHeadSize]

pop_choice_point(cps, g) ==
    [cps EXCEPT
        !.last_address = CpField(cps, CpPrevious, g),
        !.next_address =
            @ - (ChoicePointHeadSize + CpField(cps, CpNumArguments, g) * CellSize)]

CpArgumentOffset(cps, index) == cps.last_address + ChoicePointHeadSize + index * CellSize

get_argument(cps, index, g) == ReadCell(cps.raw_stack, CpArgumentOffset(cps, index), g)

set_argument(cps, index, cell) ==
    [cps EXCEPT !.raw_stack = WriteWords(@, CpArgumentOffset(cps, index), CellWords(cell))]

get_continuation(cps, g) == CpField(cps, CpContinuation, g)

get_environment_address(cps, g) == CpField(cps, CpEnvironment, g)

get_trail_address(cps, g) == CpField(cps, CpTrail, g)

get_stack_address(cps, g) == CpField(cps, CpStack, g)

\* The next_instruction_address of the oldest frame instead of the newest.
get_next_instruction_oldest(cps, g) == ReadUsize(cps.raw_stack, CpNextInstruction, g)

get_next_instruction(cps, g) == CpField(cps, CpNextInstruction, g)

\* A RetryMeElse that stores the else-address over the continuation as well.
set_next_instruction_and_continuation(cps, address) ==
    [cps EXCEPT !.raw_stack =
        WriteWords(WriteWords(@, cps.last_address + CpNextInstruction, <<UsizeWord(address)>>),
                   cps.last_address + CpContinuation, <<UsizeWord(address)>>)]

set_next_instruction(cps, address) ==
    [cps EXCEPT !.raw_stack =
        WriteWords(@, cps.last_address + CpNextInstruction, <<UsizeWord(address)>>)]

(***************************************************************************)
(* interpreter/mod.rs: Interpreter                                         *)
(***************************************************************************)
WatchCell(address, descriptor_id) == [address |-> address, descriptor_id |-> descriptor_id]

InterpreterNew(instructions, start_instruction_index, registers, descriptors, variables_to_watch) ==
    [global_stack |-> <<>>,
     environment_stack |-> EnvironmentStackNew,
     trail |-> <<>>,
     choice_point_stack |-> ChoicePointStackNew,
     registers |-> [i \in 1..registers |-> CellUndefined],
     instruction_index |-> start_instruction_index,
     current_functor |-> 0,
     proceed_return_address |-> start_instruction_index,
     execution_state |-> "Normal",
     mode |-> "Write",
     next_sub_term_address |-> 0,
     inspection_watch |->
         [i \in 1..Len(variables_to_watch) |->
             WatchCell(RegisterAddress(variables_to_watch[i].register),
                       variables_to_watch[i].variable)],
     descriptors |-> descriptors,
     instructions |-> instructions,
     inspection_set |-> FALSE,
     \* not a field of the struct: the process has panicked (an index out of
     \* bounds, todo!(), a failed unwrap, an arithmetic overflow check)
     panicked |-> FALSE]

Panic(m) == [m EXCEPT !.panicked = TRUE]

InHeap(m, index) == index >= 0 /\ index < Len(m.global_stack)

InRegisters(m, register) ==
    register.k = "Permanent" \/ (register.i >= 0 /\ register.i < Len(m.registers))

lookup_register(m, register, g) ==
    IF register.k = "Permanent" THEN get_variable(m.environment_stack, register.i, g)
    ELSE At(m.registers, register.i)

lookup_register_mut(m, register, cell) ==
    IF register.k = "Permanent"
    THEN [m EXCEPT !.environment_stack = set_variable(@, register.i, cell)]
    ELSE [m EXCEPT !.registers = Put(@, register.i, cell)]

\* Whether lookup_address(address) indexes inside its vector.
Addressable(m, address) ==
    CASE address.loc = "Register" -> InRegisters(m, RegisterOf(address))
      [] address.loc = "GlobalStack" -> InHeap(m, address.i)
      [] OTHER -> FALSE

lookup_address(m, address, g) ==
    IF address.loc = "Register" THEN lookup_register(m, RegisterOf(address), g)
    ELSE At(m.global_stack, address.i)

lookup_address_mut(m, address, cell) ==
    IF address.loc = "Register" THEN lookup_register_mut(m, RegisterOf(address), cell)
    ELSE [m EXCEPT !.global_stack = Put(@, address.i, cell)]

\* The heap watermark try_trail compares with, and its decision.
Conditional(m, address, g) ==
    /\ ~is_empty(m.choice_point_stack)
    /\ address.loc = "GlobalStack"
    /\ address.i < get_stack_address(m.choice_point_stack, g)

\* A bind that records every target, whatever its address.
try_trail_always(m, address, g) == [m EXCEPT !.trail = Append(@, address)]

\* A bind that never records its target.
try_trail_never(m, address, g) == m

try_trail(m, address, g) ==
    IF Conditional(m, address, g) THEN [m EXCEPT !.trail = Append(@, address)] ELSE m

\* The (target, value) pair bind_address settles on.
BindChoice(m, a, b, g) ==
    LET a_value == lookup_address(m, a, g)
        b_value == lookup_address(m, b, g)
    IN CASE a.loc = "Register" -> [target |-> b, value |-> a_value]
         [] b.loc = "Register" -> [target |-> a, value |-> b_value]
         [] a_value.tag = "Reference" /\ b_value.tag = "Reference" /\ a.i > b.i ->
                [target |-> b, value |-> CellReference(a.i)]
         [] a_value.tag = "Reference" /\ b_value.tag = "Reference" ->
                [target |-> a, value |-> CellReference(b.i)]
         [] a_value.tag = "Reference" -> [target |-> a, value |-> CellReference(b.i)]
         [] b_value.tag = "Reference" -> [target |-> b, value |-> CellReference(a.i)]
         [] OTHER -> [target |-> a, value |-> CellUndefined]

bind_address(m, a, b, g) ==
    LET choice == BindChoice(m, a, b, g)
    IN lookup_address_mut(try_trail(m, choice.target, g), choice.target, choice.value)

RECURSIVE DerefFrom(_, _, _, _)
DerefFrom(m, address, g, fuel) ==
    IF ~Addressable(m, address) \/ (address.loc = "Register" /\ address.k = "Permanent")
    THEN FaultAddress
    ELSE LET value == lookup_address(m, address, g) IN
         IF value.tag = "Reference" /\ (value.v # address.i \/ address.loc = "Register")
         THEN IF fuel = 0 THEN FaultAddress
              ELSE DerefFrom(m, GlobalStackAddress(value.v), g, fuel - 1)
         ELSE address

\* A chain longer than the heap revisits a cell: the recursion never returns.
deref_cell(m, address, g) == DerefFrom(m, address, g, Len(m.global_stack) + 1)

\* A backtrack that gives up without looking at the choice-point stack.
backtrack_fails(m, g) == [m EXCEPT !.execution_state = "Failure"]

\* A backtrack that also drops the choice point it resumes.
backtrack_pops(m, g) ==
    IF is_empty(m.choice_point_stack) THEN [m EXCEPT !.execution_state = "Failure"]
    ELSE [m EXCEPT !.instruction_index = get_next_instruction(m.choice_point_stack, g),
                   !.choice_point_stack = pop_choice_point(@, g)]

backtrack(m, g) ==
    IF is_empty(m.choice_point_stack) THEN [m EXCEPT !.execution_state = "Failure"]
    ELSE [m EXCEPT !.instruction_index = get_next_instruction(m.choice_point_stack, g)]

\* The argument pairs of the loop `for i in 1..arity`, which leaves out the last.
StructurePairs_short(a_ref, b_ref, n) ==
    Concat([i \in 1..(n - 1) |-> <<GlobalStackAddress(a_ref + i), GlobalStackAddress(b_ref + i)>>])

StructurePairs(a_ref, b_ref, n) ==
    Concat([i \in 1..n |-> <<GlobalStackAddress(a_ref + i), GlobalStackAddress(b_ref + i)>>])

\* The while loop of unify over working_stack (its back is the end of the
\* sequence).
RECURSIVE UnifyLoop(_, _, _)
UnifyLoop(m, working_stack, g) ==
    IF Len(working_stack) < 2 \/ m.panicked THEN m
    ELSE LET a == working_stack[Len(working_stack)]
             b == working_stack[Len(working_stack) - 1]
             rest == SubSeq(working_stack, 1, Len(working_stack) - 2)
             a_address == deref_cell(m, a, g)
             b_address == deref_cell(m, b, g)
         IN IF a_address = FaultAddress \/ b_address = FaultAddress THEN Panic(m)
            ELSE IF a = b THEN UnifyLoop(m, rest, g)
            ELSE LET a_cell == lookup_address(m, a_address, g)
                     b_cell == lookup_address(m, b_address, g)
                 IN IF a_cell.tag = "Reference" \/ b_cell.tag = "Reference"
                    THEN UnifyLoop(bind_address(m, a_address, b_address, g), rest, g)
                    ELSE IF a_cell.tag = "StructureRef" /\ b_cell.tag = "StructureRef"
                    THEN IF ~InHeap(m, a_cell.v) \/ ~InHeap(m, b_cell.v) THEN Panic(m)
                         ELSE LET structure_a == At(m.global_stack, a_cell.v)
                                  structure_b == At(m.global_stack, b_cell.v)
                              IN IF /\ structure_a.tag = "Structure"
                                    /\ structure_b.tag = "Structure"
                                    /\ structure_a.v = structure_b.v
                                 THEN UnifyLoop(m,
                                          rest \o StructurePairs(a_cell.v, b_cell.v,
                                                      arity(m.descriptors, structure_a.v)),
                                          g)
                                 ELSE backtrack(m, g)
                    ELSE backtrack(m, g)

\* A unify that accepts any two cells.
unify_accepts(m, a, b, g) == m

unify(m, a, b, g) == UnifyLoop(m, <<a, b>>, g)

RECURSIVE UnwindFrom(_, _, _)
UnwindFrom(global_stack, trail, i) ==
    IF i >= Len(trail) THEN global_stack
    ELSE UnwindFrom(Put(global_stack, At(trail, i).i, CellReference(At(trail, i).i)),
                    trail, i + 1)

\* unwind_trail(start..self.trail.len())
unwind_trail(m, start) ==
    [m EXCEPT !.global_stack = UnwindFrom(@, m.trail, start)]

\* A try_backtrack that never finds a choice point.
try_backtrack_never(m) == FALSE

try_backtrack_returns(m) ==
    ~(is_empty(m.choice_point_stack) \/ m.execution_state = "Failure")

try_backtrack(m, g) == IF try_backtrack_returns(m) THEN backtrack(m, g) ELSE m

(***************************************************************************)
(* interpreter/mod.rs: Interpreter::step, one operator per match arm       *)
(***************************************************************************)
HeapLen(m) == Len(m.global_stack)

ExecPutStructure(m, ins, g) ==
    lookup_register_mut(
        [m EXCEPT !.global_stack =
            @ \o <<CellStructureRef(HeapLen(m) + 1), CellStructure(ins.id)>>],
        ins.reg, CellStructureRef(HeapLen(m) + 2 - 1))

ExecSetVariable(m, ins, g) ==
    lookup_register_mut(
        [m EXCEPT !.global_stack = Append(@, CellReference(HeapLen(m)))],
        ins.reg, CellReference(HeapLen(m) + 1 - 1))

ExecSetValue(m, ins, g) ==
    [m EXCEPT !.global_stack = Append(@, lookup_register(m, ins.reg, g))]

ExecPutValue(m, ins, g) ==
    lookup_register_mut(m, ins.reg, lookup_register(m, ins.var, g))

ExecPutVariable(m, ins, g) ==
    LET new_unbound == CellReference(HeapLen(m))
    IN lookup_register_mut(
           lookup_register_mut(
               [m EXCEPT !.global_stack = Append(@, new_unbound)],
               ins.reg, new_unbound),
           ins.var, new_unbound)

\* A GetStructure whose Read arm leaves S at the Functor cell itself.
ExecGetStructure_at_functor(m, ins, g) ==
    LET address == deref_cell(m, RegisterAddress(ins.reg), g)
        value == lookup_address(m, address, g)
    IN IF address = FaultAddress THEN Panic(m)
       ELSE CASE value.tag = "Reference" ->
                   [bind_address(
                        [m EXCEPT !.global_stack =
                            @ \o <<CellStructureRef(HeapLen(m) + 1), CellStructure(ins.id)>>],
                        address, GlobalStackAddress(HeapLen(m) + 2 - 2), g)
                    EXCEPT !.mode = "Write"]
              [] value.tag = "StructureRef" ->
                   IF ~InHeap(m, value.v) THEN Panic(m)
                   ELSE IF At(m.global_stack, value.v) = CellStructure(ins.id)
                   THEN [m EXCEPT !.next_sub_term_address = value.v, !.mode = "Read"]
                   ELSE backtrack(m, g)
              [] OTHER -> backtrack(m, g)

ExecGetStructure(m, ins, g) ==
    LET address == deref_cell(m, RegisterAddress(ins.reg), g)
        value == lookup_address(m, address, g)
    IN IF address = FaultAddress THEN Panic(m)
       ELSE CASE value.tag = "Reference" ->
                   [bind_address(
                        [m EXCEPT !.global_stack =
                            @ \o <<CellStructureRef(HeapLen(m) + 1), CellStructure(ins.id)>>],
                        address, GlobalStackAddress(HeapLen(m) + 2 - 2), g)
                    EXCEPT !.mode = "Write"]
              [] value.tag = "StructureRef" ->
                   IF ~InHeap(m, value.v) THEN Panic(m)
                   ELSE IF At(m.global_stack, value.v) = CellStructure(ins.id)
                   THEN [m EXCEPT !.next_sub_term_address = value.v + 1, !.mode = "Read"]
                   ELSE backtrack(m, g)
              [] OTHER -> backtrack(m, g)

ExecGetVariable(m, ins, g) ==
    lookup_register_mut(m, ins.var, lookup_register(m, ins.reg, g))

ExecGetValue(m, ins, g) ==
    unify(m, RegisterAddress(ins.var), RegisterAddress(ins.reg), g)

ExecUnifyVariable(m, ins, g) ==
    LET done ==
          IF m.mode = "Read"
          THEN IF ~InHeap(m, m.next_sub_term_address) THEN Panic(m)
               ELSE lookup_register_mut(m, ins.reg,
                                        At(m.global_stack, m.next_sub_term_address))
          ELSE lookup_register_mut(
                   [m EXCEPT !.global_stack = Append(@, CellReference(HeapLen(m)))],
                   ins.reg, CellReference(HeapLen(m)))
    IN [done EXCEPT !.next_sub_term_address = @ + 1]

ExecUnifyValue(m, ins, g) ==
    LET done ==
          IF m.mode = "Read"
          THEN unify(m, RegisterAddress(ins.reg),
                     GlobalStackAddress(m.next_sub_term_address), g)
          ELSE [m EXCEPT !.global_stack = Append(@, lookup_register(m, ins.reg, g))]
    IN [done EXCEPT !.next_sub_term_address = @ + 1]

ExecProceed(m, ins, g) == [m EXCEPT !.instruction_index = m.proceed_return_address]

\* Cell::heap_address panics on a cell that is neither a Ref nor a Str, and
\* index_num on a Permanent register.
WatchSettable(m, watch) ==
    /\ watch.address.loc = "Register" => watch.address.k # "Permanent"
    /\ watch.address.i < Len(m.registers)
    /\ At(m.registers, watch.address.i).tag \in {"StructureRef", "Reference"}

ExecCall(m, ins, g) ==
    LET called == [m EXCEPT !.proceed_return_address = m.instruction_index,
                            !.instruction_index = ins.addr,
                            !.current_functor = ins.id]
    IN IF m.inspection_set THEN called
       ELSE IF \E x \in 1..Len(m.inspection_watch) : ~WatchSettable(m, m.inspection_watch[x])
       THEN Panic(called)
       ELSE [called EXCEPT
                !.inspection_watch =
                    [x \in 1..Len(@) |->
                        WatchCell(GlobalStackAddress(At(m.registers, @[x].address.i).v),
                                  @[x].descriptor_id)],
                !.inspection_set = TRUE]

ExecAllocate(m, ins, g) ==
    IF m.environment_stack.next_environment_address + EnvironmentHeadSize > RawStackSize
    THEN Panic(m)
    ELSE [m EXCEPT !.environment_stack =
             push_environment(@, ins.addr, m.proceed_return_address)]

ExecDeallocate(m, ins, g) ==
    LET popped == pop_environment(m.environment_stack, g)
    IN IF popped.next_environment_address < 0 THEN Panic(m)
       ELSE [m EXCEPT !.instruction_index = env_get_continuation(m.environment_stack, g),
                      !.environment_stack = popped]

RECURSIVE SaveArguments(_, _, _, _)
SaveArguments(cps, registers, i, n) ==
    IF i >= n THEN cps
    ELSE SaveArguments(set_argument(cps, i, At(registers, i)), registers, i + 1, n)

ExecTryMeElse(m, ins, g) ==
    LET n == arity(m.descriptors, m.current_functor)
    IN IF n > Len(m.registers)
          \/ m.choice_point_stack.next_address + ChoicePointHeadSize > RawStackSize
       THEN Panic(m)
       ELSE [m EXCEPT !.choice_point_stack =
                SaveArguments(
                    push_choice_point(@, n, m.proceed_return_address,
                        get_current_address(m.environment_stack), ins.addr,
                        Len(m.trail), HeapLen(m)),
                    m.registers, 0, n)]

\* The number of argument registers RetryMeElse and TrustMe reload.
RestoreArity(m) == arity(m.descriptors, m.current_functor)

RestoreArguments(m, g) ==
    [m EXCEPT !.registers =
        [x \in 1..Len(@) |->
            IF x - 1 < RestoreArity(m) THEN get_argument(m.choice_point_stack, x - 1, g)
            ELSE @[x]]]

\* What RetryMeElse and TrustMe share: registers, environment, CP.
RestoreFrame(m, g) ==
    [RestoreArguments(m, g) EXCEPT
        !.environment_stack = reset_to(@, get_environment_address(m.choice_point_stack, g), g),
        !.proceed_return_address = get_continuation(m.choice_point_stack, g)]

\* RestoreHeap without the set_len of the heap.
RestoreHeap_keeps(m, g) ==
    LET trail_address == get_trail_address(m.choice_point_stack, g)
        unwound == unwind_trail(m, trail_address)
    IN [unwound EXCEPT !.trail = SubSeq(@, 1, trail_address)]

\* unwind_trail, then set_len of the trail and of the heap.
RestoreHeap(m, g) ==
    LET trail_address == get_trail_address(m.choice_point_stack, g)
        stack_address == get_stack_address(m.choice_point_stack, g)
        unwound == unwind_trail(m, trail_address)
    IN [unwound EXCEPT
           !.trail = SubSeq(@, 1, trail_address),
           !.global_stack = SubSeq(@, 1, stack_address)]

ExecRetryMeElse(m, ins, g) ==
    IF RestoreArity(m) > Len(m.registers) THEN Panic(m)
    ELSE RestoreHeap(
             [RestoreFrame(m, g) EXCEPT
                 !.choice_point_stack = set_next_instruction(@, ins.addr)], g)

ExecTrustMe(m, ins, g) ==
    IF RestoreArity(m) > Len(m.registers) THEN Panic(m)
    ELSE LET restored == RestoreHeap(RestoreFrame(m, g), g)
         IN [restored EXCEPT !.choice_point_stack = pop_choice_point(@, g)]

Execute(m, ins, g) ==
    CASE ins.op = "PutStructure" -> ExecPutStructure(m, ins, g)
      [] ins.op = "SetVariable" -> ExecSetVariable(m, ins, g)
      [] ins.op = "SetValue" -> ExecSetValue(m, ins, g)
      [] ins.op = "PutValue" -> ExecPutValue(m, ins, g)
      [] ins.op = "PutVariable" -> ExecPutVariable(m, ins, g)
      [] ins.op = "GetStructure" -> ExecGetStructure(m, ins, g)
      [] ins.op = "GetVariable" -> ExecGetVariable(m, ins, g)
      [] ins.op = "GetValue" -> ExecGetValue(m, ins, g)
      [] ins.op = "UnifyVariable" -> ExecUnifyVariable(m, ins, g)
      [] ins.op = "UnifyValue" -> ExecUnifyValue(m, ins, g)
      [] ins.op = "Proceed" -> ExecProceed(m, ins, g)
      [] ins.op = "Call" -> ExecCall(m, ins, g)
      [] ins.op = "Allocate" -> ExecAllocate(m, ins, g)
      [] ins.op = "Deallocate" -> ExecDeallocate(m, ins, g)
      [] ins.op = "TryMeElse" -> ExecTryMeElse(m, ins, g)
      [] ins.op = "RetryMeElse" -> ExecRetryMeElse(m, ins, g)
      [] ins.op = "TrustMe" -> ExecTrustMe(m, ins, g)
      [] OTHER -> m

\* A step() that stops on Failure only.
step_returns_unbounded(m) == ~(m.execution_state = "Failure")

\* The value step() returns.
step_returns(m) ==
    ~(m.execution_state = "Failure" \/ m.instruction_index = Len(m.instructions))

\* The instruction step() fetches (an index past the end panics).
Fetched(m) ==
    IF m.instruction_index < Len(m.instructions) THEN At(m.instructions, m.instruction_index)
    ELSE NoOp

step(m, g) ==
    IF ~step_returns(m) THEN m
    ELSE IF m.instruction_index > Len(m.instructions) THEN Panic(m)
    ELSE Execute([m EXCEPT !.instruction_index = @ + 1], Fetched(m), g)

(***************************************************************************)
(* interpreter/mod.rs: inspection                                          *)
(***************************************************************************)
View(view, n, arguments) == [view |-> view, n |-> n, arguments |-> arguments]

\* deref_cell_safe: None (here FaultAddress) for an address outside its vector.
deref_cell_safe(m, address, g) == deref_cell(m, address, g)

\* `fuel` bounds the recursion depth: a term nested deeper than the heap is long
\* is cyclic, and inspect_variable then never returns ("Overflow").
RECURSIVE inspect_variable(_, _, _, _)
inspect_variable(m, address, g, fuel) ==
    LET deref_address == deref_cell_safe(m, address, g)
        cell == lookup_address(m, deref_address, g)
    IN IF fuel = 0 THEN View("Overflow", 0, <<>>)
       ELSE IF address.loc = "Register" /\ address.k = "Permanent"
       THEN View("Panic", 0, <<>>)
       ELSE IF deref_address = FaultAddress THEN View("Undefined", 0, <<>>)
       ELSE CASE cell.tag = "Reference" /\ GlobalStackAddress(cell.v) = deref_address ->
                   View("UnboundVariable", cell.v, <<>>)
              [] cell.tag = "StructureRef" ->
                   inspect_variable(m, GlobalStackAddress(cell.v), g, fuel - 1)
              [] cell.tag = "Structure" ->
                   View("Structure", cell.v,
                        [x \in 1..arity(m.descriptors, cell.v) |->
                            inspect_variable(m, GlobalStackAddress(address.i + (x - 1) + 1),
                                             g, fuel - 1)])
              [] cell.tag = "Undefined" -> View("Undefined", 0, <<>>)
              [] OTHER -> View("Panic", 0, <<>>)

inspect(m, g) ==
    [x \in 1..Len(m.inspection_watch) |->
        [descriptor_id |-> m.inspection_watch[x].descriptor_id,
         view |-> inspect_variable(m, m.inspection_watch[x].address, g,
                                   Len(m.global_stack) + 2)]]

(***************************************************************************)
(* The programs and queries the model is run on                            *)
(***************************************************************************)
MaxFacts == 3

Input(program, query) == [program |-> program, query |-> query]

V(name) == Variable(name)

K(name) == Constant(name)

S1(name, a) == Structure(name, <<a>>)

S2(name, a, b) == Structure(name, <<a, b>>)

S3(name, a, b, c) == Structure(name, <<a, b, c>>)

\* tests/simple.rs, test_backtracking
Loves ==
    <<Fact(S2("loves", K("vincent"), K("mia"))),
      Fact(S2("loves", K("marcellus"), K("mia"))),
      Fact(S2("loves", K("pumpkin"), K("honeybunny"))),
      Fact(S2("loves", K("honeybunny"), K("pumpkin"))),
      Rule(S2("jealous", V("X"), V("Y")),
           <<S2("loves", V("X"), V("Z")), S2("loves", V("Y"), V("Z"))>>)>>

\* tests/simple.rs, test_rules
Rules1 ==
    <<Fact(S2("q", K("q"), K("s"))), Fact(S2("r", K("s"), K("t"))),
      Rule(S2("p", V("X"), V("Y")),
           <<S2("q", V("X"), V("Z")), S2("r", V("Z"), V("Y"))>>)>>

Rules2 ==
    <<Fact(S2("q", V("X"), V("Y"))),
      Rule(S3("p", S3("f", S1("f", K("a")), S1("g", K("b")), V("X")), S1("g", K("b")), K("h")),
           <<S2("q", V("X"), V("Y"))>>)>>

\* A choice point of q/1 that is resumed after r/2 has been called.
Mixed ==
    <<Fact(S1("q", K("a"))), Fact(S1("q", K("b"))), Fact(S2("r", K("b"), K("c"))),
      Rule(S2("p", V("X"), V("Y")), <<S1("q", V("X")), S2("r", V("X"), V("Y"))>>)>>

\* A rule that leaves a choice point behind, followed by a rule that allocates.
Nested ==
    <<Fact(S1("q", K("a"))), Fact(S1("q", K("b"))), Fact(S1("r", K("b"))),
      Rule(S1("a", V("X")), <<S1("q", V("X"))>>),
      Rule(S1("b", V("X")), <<S1("r", V("X"))>>),
      Rule(S1("p", V("X")), <<S1("a", V("X")), S1("b", V("X"))>>)>>

\* Clauses whose head unification fails in GetValue and in UnifyValue.
Same ==
    <<Fact(S2("e", V("X"), V("X"))), Fact(S2("e", S2("g", V("X"), V("X")), V("Y"))),
      Fact(S2("e", K("a"), V("Y")))>>

\* A choice point of q/2 that is resumed after r/1 has been called with a
\* temporary register in use.
Narrow ==
    <<Fact(S2("q", K("a"), K("b"))), Fact(S2("q", K("c"), K("d"))),
      Fact(S1("r", S1("f", S1("g", K("d"))))),
      Rule(S2("p", V("X"), V("Y")),
           <<S2("q", V("X"), V("Y")), S1("r", S1("f", S1("g", V("Y"))))>>)>>

\* A goal that builds a nested structure in a temporary register after a choice
\* point of a functor of the same arity has been pushed.
Stale ==
    <<Fact(S1("q", K("a"))), Fact(S1("q", K("b"))),
      Fact(S1("r", S1("f", S1("g", K("b"))))),
      Rule(S1("p", V("X")), <<S1("q", V("X")), S1("r", S1("f", S1("g", V("X"))))>>)>>

\* A variable of the head and of the first goal that the two register
\* allocations place in different registers.
Shifted ==
    <<Fact(S2("q", V("Z"), V("Z"))),
      Rule(S1("p", V("Y")), <<S2("q", V("Y"), V("W"))>>)>>

\* A rule whose first goal reads a temporary register that its head has not
\* written and that an earlier clause of the same functor has left a Ref in.
Leftover ==
    <<Fact(S3("g", K("c"), K("d"), V("W"))),
      Fact(S2("l", S1("y", K("u")), S3("f", K("z"), K("z"), K("z")))),
      Rule(S2("l", V("A"), V("B")), <<S3("g", K("c"), K("d"), S1("h", V("A")))>>)>>

\* A goal, s/1, that no clause defines.
Unknown ==
    <<Fact(S1("q", K("a"))),
      Rule(S1("p", V("X")), <<S1("q", V("X")), S1("s", V("X"))>>)>>

\* Narrow with a second q/2 clause whose head grows the heap past the cell a
\* register left over from the call of r/1 points at.
Dangling ==
    <<Fact(S2("q", K("a"), K("b"))),
      Fact(S2("q", Structure("h", <<V("A"), V("B"), V("C"), V("D")>>), K("d"))),
      Fact(S1("r", S1("f", S1("g", K("d"))))),
      Rule(S2("p", V("X"), V("Y")),
           <<S2("q", V("X"), V("Y")), S1("r", S1("f", S1("g", V("Y"))))>>)>>

\* One name for a constant, for a structure without arguments, for a structure
\* with one argument and for a variable.
Homonyms ==
    <<Fact(S2("n", K("c"), Structure("c", <<>>))),
      Fact(S2("n", V("c"), S1("c", K("c"))))>>

Catalogue ==
    <<Input(Nested, S1("p", V("X"))),
      Input(Narrow, S2("p", V("X"), V("Y"))),
      Input(Same, S2("e", K("a"), K("b"))),
      Input(Same, S2("e", S2("g", K("a"), K("b")), V("Z"))),
      Input(Loves, S2("jealous", V("X"), V("Y"))),
      Input(Loves, S2("loves", V("X"), K("mia"))),
      Input(Rules1, S2("p", V("X"), V("Y"))),
      Input(Rules1, S2("p", K("t"), K("q"))),
      Input(Rules2, S3("p", S3("f", V("X"), S1("g", V("Y")), K("c")), S1("g", V("Z")), K("h"))),
      Input(Rules2, S3("p", V("Z"), V("Y"), V("X"))),
      Input(<<Fact(S3("p", S1("f", V("X")), S2("h", V("Y"), S1("f", K("a"))), V("Y")))>>,
            S3("p", V("Z"), S2("h", V("Z"), V("W")), S1("f", V("W")))),
      Input(<<Fact(S3("p", V("Z"), S2("h", V("Z"), V("W")), S1("f", V("W"))))>>,
            S3("p", K("z"), S2("h", V("Z"), K("w")), S1("f", V("Z")))),
      Input(Mixed, S2("p", V("X"), V("Y"))),
      Input(Stale, S1("p", V("X"))),
      Input(Shifted, S1("p", V("V"))),
      Input(Same, S2("e", S2("g", V("X"), V("Y")), V("X"))),
      Input(Unknown, S1("p", V("X"))),
      Input(Dangling, S2("p", V("X"), V("Y"))),
      Input(Homonyms, S2("n", V("X"), V("Y"))),
      Input(Same, S2("e", V("X"), V("X"))),
      Input(<<Fact(S1("q", K("a")))>>, S2("q", K("a"), V("X"))),
      Input(Leftover, S2("l", V("X"), V("Y")))>>

\* One fact p(t1, t2) and one query p(s1, s2).
UnifyTerms ==
    {K("a"), V("X"), V("Y"), S1("f", K("a")), S1("f", V("X")), S2("h", V("X"), K("b")),
     S1("f", S1("f", V("Y")))}

UnifyInputs ==
    {Input(<<Fact(S2("p", t1, t2))>>, S2("p", s1, s2)) :
        t1 \in UnifyTerms, t2 \in UnifyTerms, s1 \in UnifyTerms, s2 \in UnifyTerms}

\* m facts of one functor and a query on it whose arguments are distinct
\* variables.
FactArguments ==
    <<K("x"), K("y"), S1("f", K("z")), V("U"), K("x"), S1("f", K("y"))>>

FactProgram1(m) == [i \in 1..m |-> Fact(S1("h", FactArguments[i]))]

FactProgram2(m) == [i \in 1..m |-> Fact(S2("l", FactArguments[i], FactArguments[i + 1]))]

FactInputs ==
    {Input(FactProgram1(m), S1("h", V("X"))) : m \in 2..MaxFacts}
    \cup {Input(FactProgram2(m), S2("l", V("X"), V("Y"))) : m \in 2..MaxFacts}

\* The number of arguments of the wide structures below.
WideArity == 17

\* A structure of WideArity arguments: `early` and `late` sixteen places apart,
\* constants everywhere else.
Wide(early, late) ==
    Structure("w", [i \in 1..WideArity |->
                        IF i = WideArity - 16 THEN early
                        ELSE IF i = WideArity THEN late
                        ELSE K("c")])

Inputs == Range(Catalogue) \cup UnifyInputs \cup FactInputs

(***************************************************************************)
(* The state machine                                                       *)
(***************************************************************************)
NoInterpreter == InterpreterNew(<<>>, 0, 0, <<>>, <<>>)

Call_(op, returned) == [op |-> op, returned |-> returned, unwound |-> 0, trailed |-> 0]

\* No rule invocation is under way, no Call is waiting for its Proceed, and no
\* choice point has kept either.
NoFrames == [live |-> <<>>, ret |-> 0, kept |-> <<>>]

\* The heads, goals and query of an input.
RootTerms(inp) ==
    {inp.query}
    \cup {inp.program[i].head : i \in 1..Len(inp.program)}
    \cup UNION {Range(inp.program[i].goals) : i \in 1..Len(inp.program)}

\* The terms that are traversed on their own: every head, goal and query of the
\* inputs, roots that have no argument, identical siblings, deep nesting, and
\* structures of more arguments than one hexadecimal digit counts.
Terms ==
    UNION {RootTerms(inp) : inp \in Inputs}
    \cup {K("a"), V("X"), Structure("c", <<>>),
          S2("f", S1("g", K("a")), S1("g", K("a"))),
          S3("p", S1("f", V("X")), S2("h", V("Y"), S1("f", K("a"))), V("Y")),
          S2("f", S1("g", S2("h", K("a"), V("X"))), V("X")),
          S2("f", Structure("c", <<>>), S1("g", Structure("c", <<>>))),
          Wide(K("a"), K("b")),
          Wide(V("X"), V("Y")),
          Wide(S1("g", K("a")), S1("h", V("X")))}

\* No traversal is under way.
NoIterator ==
    [order |-> "None", queue |-> <<>>, declared |-> {}, yielded |-> <<>>, done |-> TRUE,
     allocator |-> <<>>]

\* FactIterator::new, QueryIterator::new, DepthFirstIterator::new
IteratorNew(order, root) ==
    [order |-> order, queue |-> <<RootItem(root)>>, declared |-> {}, yielded |-> <<>>,
     done |-> FALSE, allocator |-> <<>>]

InitWith(position) ==
    /\ input \in Inputs
    /\ added = <<>>
    /\ phase = "compiling"
    /\ compiler = CompilerNew
    /\ interpreter = NoInterpreter
    /\ shadow = <<>>
    /\ frames = NoFrames
    /\ iterator = NoIterator
    /\ last = Call_("new", TRUE)
    /\ solutions = <<>>
    /\ driver = position

Init == InitWith("free")

NextClause == input.program[Len(added) + 1]

\* Compiler::add_program, Fact arm
AddFact ==
    /\ phase = "compiling" /\ Len(added) < Len(input.program) /\ ~compiler.panicked
    /\ NextClause.clause = "Fact"
    /\ compiler' = add_fact(compiler, NextClause)
    /\ added' = Append(added, Len(compiler.instructions))
    /\ UNCHANGED <<input, phase, interpreter, shadow, frames, iterator, last, solutions, driver>>

\* Compiler::add_program, Rule arm
AddRule ==
    /\ phase = "compiling" /\ Len(added) < Len(input.program) /\ ~compiler.panicked
    /\ NextClause.clause = "Rule"
    /\ \E permanent_variables \in PermanentAssignments(RulePermanentIds(compiler, NextClause)) :
          compiler' = add_rule(compiler, NextClause, permanent_variables)
    /\ added' = Append(added, Len(compiler.instructions))
    /\ UNCHANGED <<input, phase, interpreter, shadow, frames, iterator, last, solutions, driver>>

\* Compiler::compile followed by Interpreter::new, as every driver does
Compile ==
    /\ phase = "compiling" /\ Len(added) = Len(input.program) /\ ~compiler.panicked
    /\ LET Start(artifact) ==
              /\ compiler' = artifact.compiler
              /\ IF artifact.compiler.panicked
                 THEN phase' = "panicked" /\ UNCHANGED interpreter
                 ELSE /\ phase' = "running"
                      /\ interpreter' =
                            InterpreterNew(artifact.compiler.instructions,
                                           artifact.start_instruction_index,
                                           artifact.compiler.max_registers,
                                           artifact.compiler.descriptor_allocator.descriptors,
                                           artifact.inspection_variables)
       IN Start(compile(compiler, input.query))
    /\ UNCHANGED <<input, added, shadow, frames, iterator, last, solutions, driver>>

Running == phase = "running" /\ ~interpreter.panicked

\* The shadow stack follows the choice-point stack by the instructions executed:
\* TryMeElse pushes the machine as it found it and the else_address it was given,
\* RetryMeElse replaces the else_address, TrustMe pops.
ShadowFrame(machine, next_clause) == [machine |-> machine, next_clause |-> next_clause]

ShadowAfter(ins) ==
    IF ins.op = "TryMeElse" THEN Append(shadow, ShadowFrame(interpreter, ins.addr))
    ELSE IF ins.op = "RetryMeElse" /\ shadow # <<>>
    THEN [shadow EXCEPT ![Len(shadow)].next_clause = ins.addr]
    ELSE IF ins.op = "TrustMe" /\ shadow # <<>> THEN SubSeq(shadow, 1, Len(shadow) - 1)
    ELSE shadow

\* The invocations under way follow the instructions executed: Allocate opens one
\* and notes the return address (CP) and the environment stack it found,
\* Deallocate closes the newest, Call notes the index after itself, TryMeElse
\* keeps all of this, and RetryMeElse and TrustMe go back to what the newest
\* choice point kept.
InvocationFrame(m) ==
    [continuation |-> m.proceed_return_address,
     num_variables |-> Fetched(m).addr,
     last_environment_address |-> m.environment_stack.last_environment_address,
     next_environment_address |-> m.environment_stack.next_environment_address]

FramesAfter(ins) ==
    CASE ins.op = "Allocate" ->
            [frames EXCEPT !.live = Append(@, InvocationFrame(interpreter))]
      [] ins.op = "Deallocate" /\ frames.live # <<>> ->
            [frames EXCEPT !.live = SubSeq(@, 1, Len(@) - 1)]
      [] ins.op = "Call" -> [frames EXCEPT !.ret = interpreter.instruction_index + 1]
      [] ins.op = "TryMeElse" ->
            [frames EXCEPT !.kept = Append(@, [live |-> frames.live, ret |-> frames.ret])]
      [] ins.op = "RetryMeElse" /\ frames.kept # <<>> ->
            [frames EXCEPT !.live = frames.kept[Len(frames.kept)].live,
                           !.ret = frames.kept[Len(frames.kept)].ret]
      [] ins.op = "TrustMe" /\ frames.kept # <<>> ->
            [live |-> frames.kept[Len(frames.kept)].live,
             ret |-> frames.kept[Len(frames.kept)].ret,
             kept |-> SubSeq(frames.kept, 1, Len(frames.kept) - 1)]
      [] OTHER -> frames

\* One call of step() that executes an instruction.
StepInstruction ==
    /\ Running /\ step_returns(interpreter)
    /\ \E g \in GarbageCells : interpreter' = step(interpreter, g)
    /\ last' = [Call_(Fetched(interpreter).op, TRUE) EXCEPT
                   !.unwound = Max(0, Len(interpreter.trail) - Len(interpreter'.trail)),
                   !.trailed = Max(0, Len(interpreter'.trail) - Len(interpreter.trail))]
    /\ shadow' = ShadowAfter(Fetched(interpreter))
    /\ frames' = FramesAfter(Fetched(interpreter))
    /\ UNCHANGED iterator

\* One call of step() that returns false.
StepHalted ==
    /\ Running /\ ~step_returns(interpreter)
    /\ \E g \in GarbageCells : interpreter' = step(interpreter, g)
    /\ last' = Call_("step", FALSE)
    /\ UNCHANGED <<shadow, frames, iterator>>

Unstepped == <<input, added, phase, compiler, solutions, driver>>

StepPutStructure ==
    /\ Fetched(interpreter).op = "PutStructure"
    /\ StepInstruction
    /\ UNCHANGED Unstepped

StepSetVariable ==
    /\ Fetched(interpreter).op = "SetVariable"
    /\ StepInstruction
    /\ UNCHANGED Unstepped

StepSetValue ==
    /\ Fetched(interpreter).op = "SetValue"
    /\ StepInstruction
    /\ UNCHANGED Unstepped

StepPutValue ==
    /\ Fetched(interpreter).op = "PutValue"
    /\ StepInstruction
    /\ UNCHANGED Unstepped

StepPutVariable ==
    /\ Fetched(interpreter).op = "PutVariable"
    /\ StepInstruction
    /\ UNCHANGED Unstepped

StepDebugComment ==
    /\ Fetched(interpreter).op = "DebugComment"
    /\ StepInstruction
    /\ UNCHANGED Unstepped

StepGetStructure ==
    /\ Fetched(interpreter).op = "GetStructure"
    /\ StepInstruction
    /\ UNCHANGED Unstepped

StepGetVariable ==
    /\ Fetched(interpreter).op = "GetVariable"
    /\ StepInstruction
    /\ UNCHANGED Unstepped

StepGetValue ==
    /\ Fetched(interpreter).op = "GetValue"
    /\ StepInstruction
    /\ UNCHANGED Unstepped

StepUnifyVariable ==
    /\ Fetched(interpreter).op = "UnifyVariable"
    /\ StepInstruction
    /\ UNCHANGED Unstepped

StepUnifyValue ==
    /\ Fetched(interpreter).op = "UnifyValue"
    /\ StepInstruction
    /\ UNCHANGED Unstepped

StepProceed ==
    /\ Fetched(interpreter).op = "Proceed"
    /\ StepInstruction
    /\ UNCHANGED Unstepped

StepCall ==
    /\ Fetched(interpreter).op = "Call"
    /\ StepInstruction
    /\ UNCHANGED Unstepped

StepAllocate ==
    /\ Fetched(interpreter).op = "Allocate"
    /\ StepInstruction
    /\ UNCHANGED Unstepped

StepDeallocate ==
    /\ Fetched(interpreter).op = "Deallocate"
    /\ StepInstruction
    /\ UNCHANGED Unstepped

StepTryMeElse ==
    /\ Fetched(interpreter).op = "TryMeElse"
    /\ StepInstruction
    /\ UNCHANGED Unstepped

StepRetryMeElse ==
    /\ Fetched(interpreter).op = "RetryMeElse"
    /\ StepInstruction
    /\ UNCHANGED Unstepped

StepTrustMe ==
    /\ Fetched(interpreter).op = "TrustMe"
    /\ StepInstruction
    /\ UNCHANGED Unstepped

StepNoOp ==
    /\ Fetched(interpreter).op = "NoOp"
    /\ StepInstruction
    /\ UNCHANGED Unstepped

StepReturnsFalse ==
    /\ StepHalted
    /\ UNCHANGED <<input, added, phase, compiler, solutions, driver>>

\* Interpreter::try_backtrack, which a driver may call in any state
TryBacktrack ==
    /\ Running
    /\ \E g \in GarbageCells : interpreter' = try_backtrack(interpreter, g)
    /\ last' = Call_("try_backtrack", try_backtrack_returns(interpreter))
    /\ UNCHANGED <<input, added, phase, compiler, shadow, frames, iterator, solutions, driver>>

Next ==
    \/ AddFact \/ AddRule \/ Compile
    \/ StepPutStructure \/ StepSetVariable \/ StepSetValue \/ StepPutValue
    \/ StepPutVariable \/ StepDebugComment \/ StepGetStructure \/ StepGetVariable
    \/ StepGetValue \/ StepUnifyVariable \/ StepUnifyValue \/ StepProceed \/ StepCall
    \/ StepAllocate \/ StepDeallocate \/ StepTryMeElse \/ StepRetryMeElse
    \/ StepTrustMe \/ StepNoOp \/ StepReturnsFalse
    \/ TryBacktrack

Spec == Init /\ [][Next]_vars

(***************************************************************************)
(* The driver loop of tests/simple.rs (helper_execute_multi)               *)
(***************************************************************************)
InitDriver == InitWith("step")

\* while interpreter.step() {}
DriverStep ==
    /\ driver = "step"
    /\ \/ StepInstruction /\ UNCHANGED driver
       \/ StepHalted /\ driver' = "record"
    /\ UNCHANGED <<input, added, phase, compiler, solutions>>

\* if execution_state == Normal { output.push_str(inspect()) }
DriverRecord ==
    /\ driver = "record" /\ Running
    /\ \E g \in GarbageCells :
          solutions' = IF interpreter.execution_state = "Normal"
                       THEN Append(solutions, inspect(interpreter, g))
                       ELSE solutions
    /\ driver' = "backtrack"
    /\ last' = Call_("inspect", TRUE)
    /\ UNCHANGED <<input, added, phase, compiler, interpreter, shadow, frames, iterator>>

\* if !interpreter.try_backtrack() { break }
DriverBacktrack ==
    /\ driver = "backtrack" /\ Running
    /\ \E g \in GarbageCells : interpreter' = try_backtrack(interpreter, g)
    /\ last' = Call_("try_backtrack", try_backtrack_returns(interpreter))
    /\ driver' = IF try_backtrack_returns(interpreter) THEN "step" ELSE "done"
    /\ UNCHANGED <<input, added, phase, compiler, shadow, frames, iterator, solutions>>



NextDriver == AddFact \/ AddRule \/ Compile \/ DriverStep \/ DriverRecord \/ DriverBacktrack

SpecDriver == InitDriver /\ [][NextDriver]_vars

(***************************************************************************)
(* The traversals of traversal.rs and RegistryAllocator::new, one term at  *)
(* a time                                                                  *)
(***************************************************************************)
Orders == {"Fact", "Query", "DepthFirst"}

InitTerms ==
    /\ input \in {Input(<<>>, term) : term \in Terms}
    /\ added = <<>>
    /\ phase = "traversing"
    /\ compiler = CompilerNew
    /\ interpreter = NoInterpreter
    /\ shadow = <<>>
    /\ frames = NoFrames
    /\ iterator \in {IteratorNew(order, input.query) : order \in Orders}
    /\ last = Call_("new", TRUE)
    /\ solutions = <<>>
    /\ driver = "free"

\* What one call of next() leaves of the iterator.
IteratorAfter(r) ==
    [iterator EXCEPT !.queue = r.queue,
                     !.declared = r.declared,
                     !.yielded = IF r.some THEN Append(@, r.item) ELSE @,
                     !.done = ~r.some]

Traversing(order) ==
    /\ phase = "traversing" /\ iterator.order = order /\ ~iterator.done
    /\ UNCHANGED <<input, added, phase, compiler, interpreter, shadow, frames, last, solutions, driver>>

\* FactIterator::next, called once
TraverseFact ==
    /\ Traversing("Fact")
    /\ iterator' = IteratorAfter(FactIteratorNext(iterator.queue))

\* QueryIterator::next, called once
TraverseQuery ==
    /\ Traversing("Query")
    /\ iterator' = IteratorAfter(QueryIteratorNext(iterator.queue, iterator.declared))

\* DepthFirstIterator::next, called once
TraverseDepthFirst ==
    /\ Traversing("DepthFirst")
    /\ iterator' = IteratorAfter(DepthFirstIteratorNext(iterator.queue))

\* RegistryAllocator::new over the items the iterator of the target yields, with
\* no permanent variable (as for a fact or a query)
AllocateRegisters ==
    /\ phase = "traversing" /\ iterator.order \in {"Fact", "Query"}
    /\ iterator.done /\ iterator.allocator = <<>>
    /\ iterator' =
          [iterator EXCEPT !.allocator =
              RegistryAllocatorNew(iterator.yielded, input.query,
                                   InternItems(DescriptorAllocatorDefault, iterator.yielded),
                                   <<>>)]
    /\ UNCHANGED <<input, added, phase, compiler, interpreter, shadow, frames, last, solutions, driver>>

NextTerms == TraverseFact \/ TraverseQuery \/ TraverseDepthFirst \/ AllocateRegisters

SpecTerms == InitTerms /\ [][NextTerms]_vars

(***************************************************************************)
(* Properties                                                              *)
(***************************************************************************)
\* The terms a recorded view may stand for: a functor term shows as a Structure
\* of the same name and arity whose arguments show the term's arguments, a
\* variable of the fact shows as an unbound variable.
RECURSIVE Shows(_, _, _)
Shows(descriptors, view, term) ==
    IF term.kind = "Variable" THEN view.view = "UnboundVariable"
    ELSE /\ view.view = "Structure"
         /\ view.n < Len(descriptors)
         /\ At(descriptors, view.n).kind = "Functor"
         /\ At(descriptors, view.n).name = term.name
         /\ At(descriptors, view.n).arity = TermArity(term)
         /\ Len(view.arguments) = TermArity(term)
         /\ \A i \in 1..TermArity(term) :
               Shows(descriptors, view.arguments[i], term.args[i])

DistinctVariables(args) ==
    /\ \A i \in 1..Len(args) : args[i].kind = "Variable"
    /\ \A i, j \in 1..Len(args) : i # j => args[i] # args[j]

\* m >= 2 facts of one functor and a query on it with distinct variables.
FactsOfOneFunctor ==
    /\ Len(input.program) >= 2
    /\ \A i \in 1..Len(input.program) :
          /\ input.program[i].clause = "Fact"
          /\ DescriptorIdentifier(input.program[i].head) = DescriptorIdentifier(input.query)
    /\ DistinctVariables(input.query.args)

\* The k-th recorded solution binds the j-th query variable to the j-th argument
\* of the k-th fact.
SolutionOfFact(k) ==
    /\ Len(solutions[k]) = Len(input.query.args)
    /\ \A j \in 1..Len(input.query.args) :
          /\ solutions[k][j].descriptor_id =
                DescriptorOf(compiler.descriptor_allocator, input.query.args[j])
          /\ Shows(interpreter.descriptors, solutions[k][j].view,
                   input.program[k].head.args[j])

\* While the driver is stepping, every step but the one Call of the run moves the
\* instruction index forward, so the stepping comes to an end.
SteppingAdvances ==
    (phase = "running" /\ driver = "step" /\ driver' = "step") =>
        IF last'.op = "Call"
        THEN ~interpreter.inspection_set /\ interpreter'.inspection_set
        ELSE interpreter'.instruction_index > interpreter.instruction_index

Top(stack) == stack[Len(stack)]

\* The instructions that can fail: GetStructure, and unify() in GetValue and in
\* UnifyValue.
FailingOps == {"GetStructure", "GetValue", "UnifyValue"}

\* This step ran one of them and it did not fall through to the next instruction.
FailedStep ==
    /\ last'.op \in FailingOps
    /\ ~interpreter'.panicked
    /\ \/ interpreter'.execution_state = "Failure"
       \/ interpreter'.instruction_index # interpreter.instruction_index + 1

TriedBacktrack == last'.op = "try_backtrack"

\* C2: a backtrack with a non-empty choice-point stack, by a failure inside
\* step() or by try_backtrack(), resumes at the next_clause of the newest choice
\* point TryMeElse has pushed and TrustMe has not popped; the choice-point stack
\* is empty exactly when no such choice point is left.
C2_BacktrackResumesNewest ==
    [][/\ ((FailedStep \/ (TriedBacktrack /\ last'.returned))
              /\ ~is_empty(interpreter.choice_point_stack))
          => /\ shadow # <<>>
             /\ interpreter'.instruction_index = Top(shadow).next_clause
       /\ ~interpreter'.panicked
          => (is_empty(interpreter'.choice_point_stack) <=> shadow' = <<>>)]_vars

C2_Witness ==
    /\ Len(shadow) >= 2
    /\ last.op = "GetStructure"
    /\ interpreter.execution_state = "Normal"
    /\ interpreter.instruction_index = Top(shadow).next_clause
    /\ Top(shadow).next_clause # shadow[1].next_clause

\* C5: try_backtrack() returns true exactly when the choice-point stack is not
\* empty and the state is Normal; then only the instruction index changes, to the
\* next_clause of the newest choice point; when it returns false the machine is
\* left as it was.
C5_TryBacktrack ==
    [][TriedBacktrack =>
          /\ last'.returned <=> (/\ ~is_empty(interpreter.choice_point_stack)
                                 /\ interpreter.execution_state = "Normal")
          /\ last'.returned =>
                /\ shadow # <<>>
                /\ interpreter' =
                      [interpreter EXCEPT !.instruction_index = Top(shadow).next_clause]
          /\ ~last'.returned => interpreter' = interpreter]_vars

C5_Witness ==
    /\ last.op = "try_backtrack" /\ last.returned
    /\ Len(interpreter.trail) > 0
    /\ interpreter.instruction_index = Top(shadow).next_clause

\* C6: a failing GetStructure, GetValue or UnifyValue sets Failure only when the
\* choice-point stack is empty; otherwise the state stays Normal and the
\* instruction index becomes the newest choice point's next_clause.  In every
\* reachable state Failure implies an empty choice-point stack.
C6_FailureOnlyWhenEmpty ==
    /\ [](interpreter.execution_state = "Failure"
             => is_empty(interpreter.choice_point_stack))
    /\ [][FailedStep =>
             IF is_empty(interpreter.choice_point_stack)
             THEN interpreter'.execution_state = "Failure"
             ELSE /\ interpreter'.execution_state = "Normal"
                  /\ shadow # <<>>
                  /\ interpreter'.instruction_index = Top(shadow).next_clause]_vars

C6_Witness ==
    /\ last.op = "GetValue"
    /\ interpreter.execution_state = "Normal"
    /\ shadow # <<>>
    /\ interpreter.instruction_index = Top(shadow).next_clause

\* C7: step() returns false and leaves the machine unchanged when the state is
\* Failure or the instruction index is at or past the end; otherwise it returns
\* true and has executed the instruction at the index.  The instruction index
\* never exceeds the instruction count.
C7_Step ==
    /\ [](interpreter.instruction_index <= Len(interpreter.instructions))
    /\ [][(last'.op \notin {"new", "inspect", "try_backtrack"}) =>
             IF \/ interpreter.execution_state = "Failure"
                \/ interpreter.instruction_index >= Len(interpreter.instructions)
             THEN /\ last'.op = "step"
                  /\ ~last'.returned
                  /\ interpreter' = interpreter
             ELSE /\ last'.op = At(interpreter.instructions,
                                   interpreter.instruction_index).op
                  /\ last'.returned
                  /\ \E g \in GarbageCells :
                        interpreter' =
                            Execute([interpreter EXCEPT !.instruction_index = @ + 1],
                                    At(interpreter.instructions,
                                       interpreter.instruction_index), g)]_vars

C7_Witness ==
    /\ last.op = "step" /\ ~last.returned
    /\ interpreter.execution_state = "Normal"
    /\ interpreter.instruction_index = Len(interpreter.instructions)
    /\ Len(interpreter.instructions) > 0

\* Unification of two terms over rational trees (no occurs check), with the
\* variables of the two sides kept apart.
RECURSIVE RenameApart(_, _)
RenameApart(term, side) ==
    IF term.kind = "Variable" THEN [term EXCEPT !.kind = side]
    ELSE [term EXCEPT !.args = [i \in 1..Len(term.args) |-> RenameApart(term.args[i], side)]]

IsUnknown(term) == term.kind \in {"QueryVariable", "FactVariable"}

RECURSIVE TermSize(_)
RECURSIVE SumSizes(_, _)
SumSizes(args, i) == IF i > Len(args) THEN 0 ELSE TermSize(args[i]) + SumSizes(args, i + 1)

TermSize(term) == 1 + SumSizes(term.args, 1)

IsBound(substitution, term) == \E e \in substitution : e.unknown = term

RECURSIVE Walk(_, _)
Walk(substitution, term) ==
    IF IsUnknown(term) /\ IsBound(substitution, term)
    THEN Walk(substitution, (CHOOSE e \in substitution : e.unknown = term).term)
    ELSE term

RECURSIVE Solve(_, _, _)
Solve(pairs, substitution, fuel) ==
    IF pairs = <<>> \/ fuel = 0 THEN TRUE
    ELSE LET With(a, b, rest) ==
                 IF a = b THEN Solve(rest, substitution, fuel - 1)
                 ELSE IF IsUnknown(a)
                 THEN Solve(rest, substitution \cup {[unknown |-> a, term |-> b]}, fuel - 1)
                 ELSE IF IsUnknown(b)
                 THEN Solve(rest, substitution \cup {[unknown |-> b, term |-> a]}, fuel - 1)
                 ELSE /\ a.name = b.name
                      /\ Len(a.args) = Len(b.args)
                      /\ Solve([i \in 1..Len(a.args) |-> <<a.args[i], b.args[i]>>] \o rest,
                               substitution, fuel - 1)
         IN With(Walk(substitution, Head(pairs)[1]), Walk(substitution, Head(pairs)[2]),
                 Tail(pairs))

Unifiable(query, head) ==
    Solve(<<<<RenameApart(query, "QueryVariable"), RenameApart(head, "FactVariable")>>>>,
          {}, (TermSize(query) + TermSize(head)) * (TermSize(query) + TermSize(head)))

\* A program of one fact and a query on its functor.
SingleFact ==
    /\ Len(input.program) = 1
    /\ input.program[1].clause = "Fact"
    /\ DescriptorIdentifier(input.program[1].head) = DescriptorIdentifier(input.query)

\* C3: for a program of a single fact and a query on the same functor, stepping
\* until step() returns false does not panic, does end, and ends in Normal
\* exactly when the query and the fact head are unifiable without occurs check,
\* in Failure otherwise.
C3_SingleFactUnifies ==
    /\ [](SingleFact /\ phase # "compiling" =>
             /\ phase = "running" /\ ~interpreter.panicked
             /\ driver # "step" =>
                   interpreter.execution_state =
                       IF Unifiable(input.query, input.program[1].head) THEN "Normal"
                       ELSE "Failure")
    /\ [][SingleFact => SteppingAdvances]_vars

C3_Witness ==
    /\ SingleFact /\ driver = "done"
    /\ interpreter.execution_state = "Normal"
    /\ \E i \in 1..Len(interpreter.global_stack) :
          /\ interpreter.global_stack[i].tag = "StructureRef"
          /\ interpreter.global_stack[i].v < i - 1

HeadKey(k) == DescriptorIdentifier(input.program[k].head)

\* The clauses added so far that have the functor of clause k.
Siblings(k) == {j \in 1..Len(added) : HeadKey(j) = HeadKey(k)}

Least(set) == CHOOSE x \in set : \A y \in set : x <= y

Greatest(set) == CHOOSE x \in set : \A y \in set : x >= y

Slot(k) == At(compiler.instructions, added[k])

ChoiceOps == {"TryMeElse", "RetryMeElse", "TrustMe"}

RanChoice(ops) == last'.op \in ops /\ ~interpreter'.panicked /\ shadow # <<>>

Saved == Top(shadow).machine

\* C8: right after TrustMe the heap length, the trail length, the top of the
\* environment stack and the top of the choice-point stack are what they were
\* right before the TryMeElse that pushed the frame TrustMe popped.
C8_TrustMeRestoresTops ==
    [][RanChoice({"TrustMe"}) =>
          /\ Len(interpreter'.global_stack) = Len(Saved.global_stack)
          /\ Len(interpreter'.trail) = Len(Saved.trail)
          /\ interpreter'.environment_stack.next_environment_address
                = Saved.environment_stack.next_environment_address
          /\ interpreter'.choice_point_stack.next_address
                = Saved.choice_point_stack.next_address
          /\ interpreter'.choice_point_stack.last_address
                = Saved.choice_point_stack.last_address]_vars

C8_Witness ==
    /\ last.op = "TrustMe"
    /\ ~interpreter.panicked
    /\ Len(shadow) = 1
    /\ Len(interpreter.global_stack) > 0
    /\ interpreter.environment_stack.next_environment_address > 0
    /\ interpreter.choice_point_stack.next_address > 0

\* The arity the matching TryMeElse saved argument cells for.
ArityShadow == arity(Saved.descriptors, Saved.current_functor)

\* C9: RetryMeElse and TrustMe reload no argument slot the matching TryMeElse
\* did not save, and afterwards every argument register below the saved arity
\* holds the cell it held when that TryMeElse executed.
C9_RestoresSavedArguments ==
    [][RanChoice({"RetryMeElse", "TrustMe"}) =>
          /\ RestoreArity(interpreter) <= ArityShadow
          /\ \A i \in 0..(ArityShadow - 1) :
                At(interpreter'.registers, i) = At(Saved.registers, i)]_vars

\* C10: after RetryMeElse or TrustMe every heap cell below the heap length the
\* matching TryMeElse saved holds what it held when that TryMeElse executed.
C10_HeapBelowWatermarkRestored ==
    [][RanChoice({"RetryMeElse", "TrustMe"}) =>
          /\ Len(interpreter'.global_stack) >= Len(Saved.global_stack)
          /\ \A i \in 1..Len(Saved.global_stack) :
                interpreter'.global_stack[i] = Saved.global_stack[i]]_vars

C10_Witness ==
    /\ last.op \in {"RetryMeElse", "TrustMe"}
    /\ last.unwound > 0
    /\ ~interpreter.panicked
    /\ Len(interpreter.global_stack) > 0

\* The heap length the newest choice point was pushed at.
Watermark == Len(Saved.global_stack)

\* The trail entries this step pushed.
Trailed == {interpreter'.trail[i] : i \in (Len(interpreter.trail) + 1)..Len(interpreter'.trail)}

\* C11: a step that binds pushes onto the trail exactly the heap addresses it
\* bound that lie below the heap length saved in the newest choice point, and
\* nothing when there is no choice point; no register address is ever on the
\* trail.
C11_TrailsBelowWatermark ==
    /\ [](\A i \in 1..Len(interpreter.trail) : interpreter.trail[i].loc = "GlobalStack")
    /\ [][(phase = "running" /\ last'.op \notin {"RetryMeElse", "TrustMe"}) =>
             /\ Len(interpreter'.trail) >= Len(interpreter.trail)
             /\ SubSeq(interpreter'.trail, 1, Len(interpreter.trail)) = interpreter.trail
             /\ \A address \in Trailed :
                   /\ shadow # <<>>
                   /\ address.loc = "GlobalStack"
                   /\ address.i < Watermark
             /\ shadow # <<>> =>
                   \A j \in 0..(Watermark - 1) :
                      (j < Len(interpreter'.global_stack)
                          /\ At(interpreter'.global_stack, j) # At(interpreter.global_stack, j))
                         => GlobalStackAddress(j) \in Trailed]_vars

C11_Witness ==
    /\ last.trailed > 0
    /\ ~interpreter.panicked
    /\ shadow # <<>>
    /\ Top(interpreter.trail).i < Watermark
    /\ At(interpreter.global_stack, Top(interpreter.trail).i) # CellReference(Top(interpreter.trail).i)

\* A Str cell points inside the heap, at a Functor cell.
StrPromiseKept(m, cell) ==
    cell.tag = "StructureRef" =>
        /\ InHeap(m, cell.v)
        /\ At(m.global_stack, cell.v).tag = "Structure"

\* C12: in every reachable state every Str(a) cell of the heap and of the
\* registers has a below the heap length and a Functor cell at heap index a.
C12_StrPointsToFunctor ==
    phase = "running" =>
        /\ \A i \in 1..Len(interpreter.global_stack) :
              StrPromiseKept(interpreter, interpreter.global_stack[i])
        /\ \A i \in 1..Len(interpreter.registers) :
              StrPromiseKept(interpreter, interpreter.registers[i])

\* C13: no cell below the heap length is Undefined: every heap cell is a Ref, a
\* Str or a Functor cell.
C13_NoUndefinedOnHeap ==
    phase = "running" =>
        \A i \in 1..Len(interpreter.global_stack) :
           interpreter.global_stack[i].tag \in {"Reference", "StructureRef", "Structure"}

\* Where following Ref links from a heap index ends: "bound" at a non-Ref cell,
\* "unbound" at a self-referencing Ref, "outside" past the end of the heap, and
\* "cycle" when more links are followed than the heap has cells.
RECURSIVE ChainEnd(_, _, _)
ChainEnd(heap, index, fuel) ==
    IF index < 0 \/ index >= Len(heap) THEN "outside"
    ELSE IF At(heap, index).tag # "Reference" THEN "bound"
    ELSE IF At(heap, index).v = index THEN "unbound"
    ELSE IF fuel = 0 THEN "cycle"
    ELSE ChainEnd(heap, At(heap, index).v, fuel - 1)

\* The same from a register: a Ref in a register is always followed.
RegisterChainEnd(m, i) ==
    IF At(m.registers, i).tag # "Reference" THEN "bound"
    ELSE ChainEnd(m.global_stack, At(m.registers, i).v, Len(m.global_stack))

ChainEnds(m) ==
    {ChainEnd(m.global_stack, i, Len(m.global_stack)) : i \in 0..(Len(m.global_stack) - 1)}
    \cup {RegisterChainEnd(m, i) : i \in 0..(Len(m.registers) - 1)}

\* C14: following Ref links from any heap or register address ends, after
\* finitely many links, at a self-referencing Ref or at a non-Ref cell: there
\* is no cycle but the one-step self-reference and no link that leaves the heap.
C14_RefChainsEnd ==
    phase = "running" => ChainEnds(interpreter) \subseteq {"bound", "unbound"}

\* The weaker statement that holds: no chain of Ref links runs in a cycle.
C14_NoRefCycle ==
    phase = "running" => "cycle" \notin ChainEnds(interpreter)

\* The heap indices whose cell this step rewrote in place.
Rewritten ==
    {j \in 0..(Len(interpreter.global_stack) - 1) :
        /\ j < Len(interpreter'.global_stack)
        /\ At(interpreter'.global_stack, j) # At(interpreter.global_stack, j)}

\* C15: the heap gets shorter only in RetryMeElse and TrustMe, and then its new
\* length is the heap length saved in the newest choice point, which is not
\* greater than the current length; any other step leaves the heap as long or
\* longer and rewrites in place only cells that were unbound, by binding them.
C15_HeapShrinksOnlyOnRestore ==
    [][phase = "running" =>
          IF last'.op \in {"RetryMeElse", "TrustMe"}
          THEN (shadow # <<>> /\ ~interpreter'.panicked) =>
                  /\ Len(interpreter'.global_stack) = Watermark
                  /\ Watermark <= Len(interpreter.global_stack)
          ELSE /\ Len(interpreter'.global_stack) >= Len(interpreter.global_stack)
               /\ \A j \in Rewritten :
                     /\ At(interpreter.global_stack, j) = CellReference(j)
                     /\ last'.op \in FailingOps]_vars

C15_Witness ==
    /\ last.op = "RetryMeElse"
    /\ ~interpreter.panicked
    /\ shadow # <<>>
    /\ Len(interpreter.global_stack) = Watermark
    /\ Len(interpreter.global_stack) > 0
    /\ last.unwound > 0

\* C16: whatever the program and the query, the driver loop goes on until a call
\* of try_backtrack() returns false: no run of it is cut short by a fault of the
\* machine before that call.
C16_DriverLoopEnds == phase = "running" => ~interpreter.panicked

\* Whether a view, or a view below it, stands for a call of inspect_variable that
\* did not return a view: a panic, or a recursion without end.
RECURSIVE Unfinished(_)
Unfinished(view) ==
    \/ view.view \in {"Overflow", "Panic"}
    \/ \E i \in 1..Len(view.arguments) : Unfinished(view.arguments[i])

\* C17: in every state the machine can be in once it runs, inspect() returns, for
\* every watched variable, a finite view: no call of inspect_variable panics and
\* none recurses without end.  (inspect takes &self: it has no machine state to
\* change.)
C17_InspectSafeEverywhere ==
    (phase = "running" /\ ~interpreter.panicked) =>
        \A g \in GarbageCells :
            \A x \in 1..Len(interpreter.inspection_watch) :
                ~Unfinished(inspect(interpreter, g)[x].view)

\* The variables of a term as they are met reading it from left to right.
RECURSIVE LeftToRight(_)
LeftToRight(term) ==
    IF term.kind = "Variable" THEN <<term>>
    ELSE Concat([i \in 1..Len(term.args) |-> LeftToRight(term.args[i])])

RECURSIVE FirstOccurrences(_, _)
FirstOccurrences(terms, seen) ==
    IF terms = <<>> THEN <<>>
    ELSE IF Head(terms) \in seen THEN FirstOccurrences(Tail(terms), seen)
    ELSE <<Head(terms)>> \o FirstOccurrences(Tail(terms), seen \cup {Head(terms)})

QueryVariables == FirstOccurrences(LeftToRight(input.query), {})

\* C18: in every state of a run, whatever has been stepped or backtracked,
\* inspect() returns one entry for each distinct variable of the query and no
\* other, in the order in which the variables first occur reading the query from
\* left to right.
C18_InspectFollowsQueryOrder ==
    phase = "running" =>
        \A g \in GarbageCells :
            /\ Len(inspect(interpreter, g)) = Len(QueryVariables)
            /\ \A x \in 1..Len(QueryVariables) :
                  inspect(interpreter, g)[x].descriptor_id =
                      DescriptorOf(compiler.descriptor_allocator, QueryVariables[x])

C18_Witness ==
    /\ last.op = "RetryMeElse"
    /\ ~interpreter.panicked
    /\ Len(QueryVariables) >= 2
    /\ Len(LeftToRight(input.query)) > Len(QueryVariables)
    /\ Len(interpreter.inspection_watch) = Len(QueryVariables)

\* The Call instructions emitted so far enter at the start of a compiled clause.
C19_NoDanglingCall ==
    \A i \in 1..Len(compiler.instructions) :
        compiler.instructions[i].op = "Call" =>
            \E e \in compiler.fact_call_map : e.address = compiler.instructions[i].addr

\* C19: a rule goal or a query whose functor has no clause compiled so far is
\* answered with a compile error that names the functor, never with a panic of
\* add_rule or compile (which return no error value and whose panic message names
\* nothing), and no Call is emitted to an address that is not the start of a
\* compiled clause.
C19_UnknownFunctorIsReported == ~compiler.panicked /\ C19_NoDanglingCall

\* The instruction about to run is a GetStructure whose register leads to a Str
\* cell that points outside the heap or at a cell that is not a Functor cell.
DanglingStr(m, g) ==
    LET Target(cell) ==
            /\ cell.tag = "StructureRef"
            /\ InHeap(m, cell.v) => At(m.global_stack, cell.v).tag # "Structure"
        Found(address) == address # FaultAddress /\ Target(lookup_address(m, address, g))
    IN /\ step_returns(m)
       /\ Fetched(m).op = "GetStructure"
       /\ Found(deref_cell(m, RegisterAddress(Fetched(m).reg), g))

\* C20: a GetStructure that meets a Str cell whose target lies outside the heap
\* or is not a Functor cell stops the machine for good; it is not taken for a
\* failed unification, that is, it neither jumps to the next clause of a choice
\* point nor sets the execution state to Failure.
C20_FaultIsNotFailure ==
    [][(phase = "running" /\ last'.op = "GetStructure"
            /\ \E g \in GarbageCells : DanglingStr(interpreter, g)) =>
          /\ interpreter'.panicked
          /\ ~FailedStep]_vars

\* C21: adding a rule to a compiler in a given state has one outcome: whatever
\* order prepare_permanent_variables meets the permanent variables in, they get
\* the same slots and the same instructions are emitted.
C21_PermanentSlotsDeterministic ==
    [][(phase = "compiling" /\ Len(added') = Len(added) + 1 /\ NextClause.clause = "Rule") =>
          \A f \in PermanentAssignments(RulePermanentIds(compiler, NextClause)) :
              add_rule(compiler, NextClause, f).instructions = compiler'.instructions]_vars

RECURSIVE SubTerms(_)
SubTerms(term) == {term} \cup UNION {SubTerms(term.args[i]) : i \in 1..Len(term.args)}

\* Every term of the program and of the query.
InputTerms ==
    SubTerms(input.query)
    \cup UNION {SubTerms(input.program[i].head) : i \in 1..Len(input.program)}
    \cup UNION {UNION {SubTerms(input.program[i].goals[j]) :
                           j \in 1..Len(input.program[i].goals)} :
                    i \in 1..Len(input.program)}

\* The key of a term as the descriptor table is meant to see it: the name for a
\* variable, the name and the number of arguments for anything else.
InternKey(term) ==
    IF term.kind = "Variable" THEN <<"Named", term.name>>
    ELSE <<"Functor", term.name, Len(term.args)>>

Interned == compiler.descriptor_allocator

\* C22: the ids handed out so far are 0..n-1, one per key and one key per id; two
\* terms have the same id exactly when they have the same key (a constant and a
\* structure without arguments of the same name do, a variable and a constant of
\* the same name do not); the descriptor stored under an id is the one of its
\* key; and a later intern call leaves every id and every descriptor handed out
\* before as it is.
C22_InterningStableInjective ==
    /\ [](/\ \A e1, e2 \in Interned.descriptor_map : (e1.key = e2.key) <=> (e1.id = e2.id)
          /\ {e.id : e \in Interned.descriptor_map} = 0..(Len(Interned.descriptors) - 1)
          /\ \A e \in Interned.descriptor_map :
                /\ At(Interned.descriptors, e.id).name = e.key.name
                /\ (At(Interned.descriptors, e.id).kind = "Functor") <=> e.key.functor
                /\ arity(Interned.descriptors, e.id) = e.key.arity
          /\ \A t1, t2 \in {t \in InputTerms : HasDescriptor(Interned, t)} :
                (DescriptorOf(Interned, t1) = DescriptorOf(Interned, t2))
                    <=> (InternKey(t1) = InternKey(t2)))
    /\ [][/\ Interned.descriptor_map \subseteq Interned'.descriptor_map
          /\ Len(Interned.descriptors) <= Len(Interned'.descriptors)
          /\ SubSeq(Interned'.descriptors, 1, Len(Interned.descriptors)) = Interned.descriptors]_vars

C22_Witness ==
    /\ input.program = Homonyms
    /\ Len(added) = 2
    /\ HasDescriptor(Interned, V("c"))
    /\ DescriptorOf(Interned, K("c")) = DescriptorOf(Interned, Structure("c", <<>>))
    /\ DescriptorOf(Interned, V("c")) # DescriptorOf(Interned, K("c"))
    /\ DescriptorOf(Interned, S1("c", K("c"))) # DescriptorOf(Interned, K("c"))

\* Heap cell j was unbound before this step and the step has made it a Ref to
\* heap cell k, which was unbound too.
BoundRefToRef(j, k) ==
    /\ j \in Rewritten
    /\ At(interpreter.global_stack, j) = CellReference(j)
    /\ At(interpreter'.global_stack, j) = CellReference(k)
    /\ InHeap(interpreter, k)
    /\ At(interpreter.global_stack, k) = CellReference(k)

\* C23: when a step binds two unbound heap cells to each other, the cell it
\* overwrites is the one with the higher index, which becomes a Ref to the
\* lower one; the lower cell stays unbound.
C23_HigherCellIsOverwritten ==
    [][phase = "running" =>
          \A j, k \in 0..(Len(interpreter.global_stack) - 1) :
              BoundRefToRef(j, k) =>
                  j > k /\ At(interpreter'.global_stack, k) = CellReference(k)]_vars

\* The instruction about to run is a GetValue whose two registers dereference to
\* one and the same cell.
SamePair(m, g) ==
    LET OneCell(a_address, b_address) == a_address # FaultAddress /\ a_address = b_address
    IN /\ step_returns(m)
       /\ Fetched(m).op = "GetValue"
       /\ OneCell(deref_cell(m, RegisterAddress(Fetched(m).var), g),
                  deref_cell(m, RegisterAddress(Fetched(m).reg), g))

\* C24: a unify whose pair of addresses dereferences to one cell skips the pair:
\* the step changes no heap cell and no register and pushes nothing on the trail.
C24_SameCellIsSkipped ==
    [][(phase = "running" /\ last'.op = "GetValue"
            /\ \E g \in GarbageCells : SamePair(interpreter, g)) =>
          /\ interpreter'.global_stack = interpreter.global_stack
          /\ interpreter'.registers = interpreter.registers
          /\ interpreter'.trail = interpreter.trail]_vars

\* Whether two addresses stand for one term in machine m: they dereference to one
\* cell, or to two Str cells whose Functor cells carry one descriptor and whose
\* arguments stand for one term each.  `fuel` bounds the depth; a term deeper
\* than the heap is long is cyclic and is taken as equal to itself.
RECURSIVE SameTerm(_, _, _, _, _)
SameTerm(m, x, y, g, fuel) ==
    LET Cells(a_address, b_address) ==
            LET Args(a_cell, b_cell) ==
                    /\ a_cell.tag = "StructureRef" /\ b_cell.tag = "StructureRef"
                    /\ InHeap(m, a_cell.v) /\ InHeap(m, b_cell.v)
                    /\ At(m.global_stack, a_cell.v).tag = "Structure"
                    /\ At(m.global_stack, a_cell.v) = At(m.global_stack, b_cell.v)
                    /\ \A i \in 1..arity(m.descriptors, At(m.global_stack, a_cell.v).v) :
                          SameTerm(m, GlobalStackAddress(a_cell.v + i),
                                   GlobalStackAddress(b_cell.v + i), g, fuel - 1)
            IN \/ a_address = b_address
               \/ /\ a_address # FaultAddress /\ b_address # FaultAddress
                  /\ Args(lookup_address(m, a_address, g), lookup_address(m, b_address, g))
    IN fuel = 0 \/ Cells(deref_cell(m, x, g), deref_cell(m, y, g))

\* The Functor cells of the two structures a GetValue is about to unify, when its
\* two registers dereference to Str cells that point at Functor cells.
StrPair(m, g) ==
    LET Functors(a_cell, b_cell) ==
            IF /\ a_cell.tag = "StructureRef" /\ b_cell.tag = "StructureRef"
               /\ InHeap(m, a_cell.v) /\ InHeap(m, b_cell.v)
               /\ At(m.global_stack, a_cell.v).tag = "Structure"
               /\ At(m.global_stack, b_cell.v).tag = "Structure"
            THEN {<<a_cell.v, b_cell.v>>}
            ELSE {}
        Cells(a_address, b_address) ==
            IF a_address = FaultAddress \/ b_address = FaultAddress \/ a_address = b_address
            THEN {}
            ELSE Functors(lookup_address(m, a_address, g), lookup_address(m, b_address, g))
    IN IF step_returns(m) /\ Fetched(m).op = "GetValue"
       THEN Cells(deref_cell(m, RegisterAddress(Fetched(m).var), g),
                  deref_cell(m, RegisterAddress(Fetched(m).reg), g))
       ELSE {}

\* C25: a GetValue that unifies two structures fails when their Functor cells
\* carry different descriptors; when they carry the same descriptor and the step
\* succeeds, every one of the arity argument pairs, the last included, stands for
\* one term afterwards.
C25_StructuresUnifyArgumentwise ==
    [][(phase = "running" /\ last'.op = "GetValue" /\ ~interpreter'.panicked) =>
          \A g \in GarbageCells : \A pair \in StrPair(interpreter, g) :
              IF At(interpreter.global_stack, pair[1]) # At(interpreter.global_stack, pair[2])
              THEN FailedStep
              ELSE ~FailedStep =>
                      \A i \in 1..arity(interpreter.descriptors,
                                        At(interpreter.global_stack, pair[1]).v) :
                          SameTerm(interpreter', GlobalStackAddress(pair[1] + i),
                                   GlobalStackAddress(pair[2] + i), g,
                                   Len(interpreter'.global_stack) + 1)]_vars

\* A GetValue has unified two structures of one functor with two arguments that
\* were different cells before.
C25_Witness ==
    /\ last.op = "GetValue"
    /\ ~interpreter.panicked
    /\ interpreter.execution_state = "Normal"
    /\ input.program = <<Fact(S2("p", V("X"), V("X")))>>
    /\ input.query = S2("p", S2("h", V("X"), K("b")), S2("h", V("X"), K("b")))

\* What a GetStructure(d, r) step did, told from the cell r dereferenced to before
\* the step: "write", "read" or "backtrack" when the step matches that outcome of
\* the three, "abort" when the process panicked, "other" when it did none of these.
GetStructureOutcome(g) ==
    LET d == Fetched(interpreter).id
        h == Len(interpreter.global_stack)
        Kept == interpreter'.global_stack = interpreter.global_stack
        Told(address, value) ==
            IF value.tag = "Reference"
            THEN IF /\ interpreter'.mode = "Write"
                    /\ ~FailedStep
                    /\ interpreter'.global_stack =
                          Put(interpreter.global_stack, address.i, CellReference(h))
                              \o <<CellStructureRef(h + 1), CellStructure(d)>>
                 THEN "write" ELSE "other"
            ELSE IF /\ value.tag = "StructureRef" /\ InHeap(interpreter, value.v)
                    /\ At(interpreter.global_stack, value.v) = CellStructure(d)
            THEN IF /\ interpreter'.mode = "Read"
                    /\ interpreter'.next_sub_term_address = value.v + 1
                    /\ ~FailedStep /\ Kept
                 THEN "read" ELSE "other"
            ELSE IF FailedStep /\ Kept THEN "backtrack" ELSE "other"
        Seen(address) == Told(address, lookup_address(interpreter, address, g))
    IN IF interpreter'.panicked THEN "abort"
       ELSE Seen(deref_cell(interpreter, RegisterAddress(Fetched(interpreter).reg), g))

\* C26: every GetStructure step has one of three outcomes, told by the cell its
\* register dereferences to: write (unbound Ref), read (Str at Functor(d)) or
\* backtrack with the heap untouched (anything else).
C26_GetStructureThreeOutcomes ==
    [][(phase = "running" /\ last'.op = "GetStructure") =>
          \A g \in GarbageCells :
              GetStructureOutcome(g) \in {"write", "read", "backtrack"}]_vars

\* What holds: the three outcomes, or the process is gone.
C26_ThreeOutcomesOrAbort ==
    [][(phase = "running" /\ last'.op = "GetStructure") =>
          \A g \in GarbageCells :
              GetStructureOutcome(g) \in {"write", "read", "backtrack", "abort"}]_vars

\* C27: a Deallocate sets IP to the return address its invocation's Allocate
\* found in CP, whatever Calls the body has made since, and leaves the
\* environment stack pointers as that Allocate found them; a Proceed resumes at
\* the index after the Call that entered the clause.
C27_DeallocateReturnsToCaller ==
    [][(phase = "running" /\ ~interpreter'.panicked) =>
          /\ (last'.op = "Deallocate" /\ frames.live # <<>>) =>
                /\ interpreter'.instruction_index = Top(frames.live).continuation
                /\ interpreter'.environment_stack.last_environment_address =
                      Top(frames.live).last_environment_address
                /\ interpreter'.environment_stack.next_environment_address =
                      Top(frames.live).next_environment_address
          /\ last'.op = "Proceed" => interpreter'.instruction_index = frames.ret]_vars

Frames == interpreter.choice_point_stack

\* The word of the choice-point region that holds the next_clause field of the
\* top frame.
NextClauseWord == (Frames.last_address + CpNextInstruction) \div WordSize + 1

\* C28: RetryMeElse leaves the choice-point stack as deep as it was and changes
\* nothing in it but the next_clause field of the top frame, which becomes its
\* else-address; TrustMe removes the top frame, and that frame only; TryMeElse
\* adds one; no other call on the machine changes the choice-point stack.
C28_RetryKeepsTrustPops ==
    [][(phase = "running" /\ ~interpreter'.panicked /\ last'.op # "new") =>
          CASE last'.op = "RetryMeElse" /\ shadow # <<>> ->
                  /\ interpreter'.choice_point_stack.last_address = Frames.last_address
                  /\ interpreter'.choice_point_stack.next_address = Frames.next_address
                  /\ Len(interpreter'.choice_point_stack.raw_stack) = Len(Frames.raw_stack)
                  /\ \A x \in 1..Len(Frames.raw_stack) :
                        x # NextClauseWord =>
                            interpreter'.choice_point_stack.raw_stack[x] = Frames.raw_stack[x]
                  /\ \A g \in GarbageCells :
                        get_next_instruction(interpreter'.choice_point_stack, g)
                            = Fetched(interpreter).addr
            [] last'.op = "TrustMe" /\ shadow # <<>> ->
                  /\ interpreter'.choice_point_stack.next_address = Frames.last_address
                  /\ interpreter'.choice_point_stack.last_address
                        = Saved.choice_point_stack.last_address
                  /\ interpreter'.choice_point_stack.raw_stack = Frames.raw_stack
            [] last'.op = "TryMeElse" ->
                  /\ interpreter'.choice_point_stack.last_address = Frames.next_address
                  /\ interpreter'.choice_point_stack.next_address > Frames.next_address
            [] OTHER -> interpreter'.choice_point_stack = Frames]_vars

C28_Witness ==
    /\ last.op = "RetryMeElse"
    /\ ~interpreter.panicked
    /\ Len(shadow) >= 2
    /\ Top(shadow).machine.choice_point_stack.next_address > 0

\* The chunks of a rule: the variables of the head and of the first goal, then
\* the variables of every later goal.
Chunks(rule) ==
    <<Range(LeftToRight(rule.head))
        \cup (IF rule.goals = <<>> THEN {} ELSE Range(LeftToRight(rule.goals[1])))>>
    \o [j \in 1..(Len(rule.goals) - 1) |-> Range(LeftToRight(rule.goals[j + 1]))]

\* The variables of a rule that occur in two chunks or more.
PermanentVariables(rule) ==
    {v \in UNION Range(Chunks(rule)) :
        Cardinality({c \in 1..Len(Chunks(rule)) : v \in Chunks(rule)[c]}) >= 2}

\* The instructions emitted for the k-th clause, without the slot the clause
\* chain uses in front of it and without the DebugComments.
ClauseCode(k) ==
    LET first == added[k] + 2
        last_ == IF k < Len(added) THEN added[k + 1] ELSE Len(compiler.instructions)
    IN SelectSeq(SubSeq(compiler.instructions, first, last_),
                 LAMBDA ins : ins.op # "DebugComment")

GetOps == {"GetStructure", "GetVariable", "GetValue", "UnifyVariable", "UnifyValue"}

PutOps == {"PutStructure", "PutVariable", "PutValue", "SetVariable", "SetValue"}

\* The positions of the Calls in a code sequence, in order.
RECURSIVE CallsIn(_, _)
CallsIn(code, from) ==
    IF from > Len(code) THEN <<>>
    ELSE IF code[from].op = "Call" THEN <<from>> \o CallsIn(code, from + 1)
    ELSE CallsIn(code, from + 1)

RuleLayout(rule, code) ==
    LET calls == CallsIn(code, 1)
        Between(lo, hi, ops) == \A x \in (lo + 1)..(hi - 1) : code[x].op \in ops
    IN /\ Len(code) >= 2
       /\ code[1].op = "Allocate"
       /\ code[1].addr = Cardinality(PermanentVariables(rule))
       /\ code[Len(code)] = Deallocate
       /\ Len(calls) = Len(rule.goals)
       /\ \A j \in 1..Len(calls) :
             /\ code[calls[j]].addr =
                   CallAddress(compiler.fact_call_map,
                               DescriptorOf(compiler.descriptor_allocator, rule.goals[j]))
             /\ IF j = 1
                THEN /\ Between(1, calls[1], GetOps \cup PutOps)
                     /\ \A x, y \in 2..(calls[1] - 1) :
                           (code[x].op \in PutOps /\ code[y].op \in GetOps) => y < x
                ELSE Between(calls[j - 1], calls[j], PutOps)
       /\ calls # <<>> => calls[Len(calls)] = Len(code) - 1

FactLayout(code) ==
    /\ code # <<>>
    /\ code[Len(code)] = Proceed
    /\ \A x \in 1..(Len(code) - 1) : code[x].op \in GetOps

\* C29: the code of every rule is, DebugComments aside, Allocate(p) with p the
\* number of its permanent variables, then the Get and Unify instructions of the
\* head, then for each goal from left to right its Put and Set instructions and
\* one Call to the goal's functor, then Deallocate; the code of every fact is
\* Get and Unify instructions and then one Proceed.
C29_ClauseLayout ==
    (phase = "compiling" /\ ~compiler.panicked) =>
        \A k \in 1..Len(added) :
            IF input.program[k].clause = "Rule"
            THEN RuleLayout(input.program[k], ClauseCode(k))
            ELSE FactLayout(ClauseCode(k))

C29_Witness ==
    /\ phase = "compiling"
    /\ ~compiler.panicked
    /\ input.program = Loves
    /\ Len(added) = Len(Loves)
    /\ Cardinality(PermanentVariables(Loves[5])) = 2

\* The register RegistryAllocator::new gives variable v when `root` is compiled
\* for `target` under the slots f.
VariableRegister(target, root, da, f, v) ==
    Allocation(RegistryAllocatorNew(get_ordered_iterator(target, root), root, da, f).registry_map,
               [variable |-> TRUE, n |-> DescriptorOf(da, v)]).register

\* The registers named by a code sequence.
RegistersIn(code) == {code[x].reg : x \in 1..Len(code)} \cup {code[x].var : x \in 1..Len(code)}

Classified(rule, da, f) ==
    LET perm == PermanentVariables(rule)
        p == Cardinality(perm)
        Agrees(target, root) ==
            \A v \in Range(LeftToRight(root)) :
                IF v \in perm
                THEN VariableRegister(target, root, da, f, v) = Permanent(f[DescriptorOf(da, v)])
                ELSE VariableRegister(target, root, da, f, v).k = "Temporary"
    IN /\ DOMAIN f = {DescriptorOf(da, v) : v \in perm}
       /\ {f[d] : d \in DOMAIN f} = 0..(p - 1)
       /\ \A d, e \in DOMAIN f : d # e => f[d] # f[e]
       /\ Agrees("Program", rule.head)
       /\ \A j \in 1..Len(rule.goals) : Agrees("Query", rule.goals[j])

\* C30: when a rule is added, its permanent variables are exactly the variables
\* that occur in two or more chunks (the head with the first goal, then every
\* later goal), their slots are pairwise distinct and are exactly 0..p-1, the
\* emitted code names exactly these permanent slots, and every other variable
\* of the rule gets a Temporary register.
C30_PermanentIffTwoChunks ==
    [][(phase = "compiling" /\ Len(added') = Len(added) + 1
            /\ NextClause.clause = "Rule" /\ ~compiler'.panicked) =>
        LET rule == NextClause
            da == compiler'.descriptor_allocator
            slots == {f \in PermanentAssignments(RulePermanentIds(compiler, rule)) :
                         add_rule(compiler, rule, f).instructions = compiler'.instructions}
            code == SubSeq(compiler'.instructions, Len(compiler.instructions) + 1,
                           Len(compiler'.instructions))
        IN /\ slots # {}
           /\ \A f \in slots : Classified(rule, da, f)
           /\ {r.i : r \in {q \in RegistersIn(code) : q.k = "Permanent"}}
                 = 0..(Cardinality(PermanentVariables(rule)) - 1)]_vars

C30_Witness ==
    /\ phase = "compiling"
    /\ ~compiler.panicked
    /\ input.program = Rules1
    /\ Len(added) = Len(Rules1)
    /\ PermanentVariables(Rules1[3]) = {V("Y"), V("Z")}
    /\ \E r \in RegistersIn(ClauseCode(3)) : r.k = "Temporary"
    /\ \E r \in RegistersIn(ClauseCode(3)) : r.k = "Permanent"

\* The iterators yield, call after call, what the compiler reads from them in
\* one go.
TraversalAgrees ==
    (phase = "traversing" /\ iterator.done) =>
        iterator.yielded =
            CASE iterator.order = "Fact" -> FactIterator(input.query)
              [] iterator.order = "Query" -> QueryIterator(input.query)
              [] OTHER -> DepthFirstIterator(input.query)

\* The registers of the allocator built for the traversed term.
ItemRegister(item) ==
    get_register(iterator.allocator,
                 InternItems(DescriptorAllocatorDefault, iterator.yielded), item)

\* Every structure of the term has fewer than sixteen arguments.
RECURSIVE Slim(_)
Slim(term) == Len(term.args) < 16 /\ \A i \in 1..Len(term.args) : Slim(term.args[i])

RegistersWellAllocated ==
    LET items == iterator.yielded
        n == TermArity(input.query)
        Owns(x) == ItemRegister(items[x]).register.k = "Temporary"
    IN /\ \A x \in 1..Len(items) :
             /\ items[x].level = 1 =>
                   /\ items[x].argument_index \in 0..(n - 1)
                   /\ Argument(items[x].argument_index) \in ItemRegister(items[x]).argument_register
                   /\ get_register_id(ItemRegister(items[x]), 1, items[x].argument_index)
                         = Argument(items[x].argument_index)
             /\ Owns(x) => ItemRegister(items[x]).register.i >= n
             /\ items[x].term.kind = "Variable" => Owns(x)
       /\ \A i \in 0..(n - 1) : \E x \in 1..Len(items) :
             items[x].level = 1 /\ items[x].argument_index = i
       /\ \A x, y \in 1..Len(items) :
             /\ (items[x].term.kind = "Variable" /\ items[x].term = items[y].term)
                   => ItemRegister(items[x]).register = ItemRegister(items[y]).register
             /\ (x # y /\ Owns(x) /\ Owns(y)
                     /\ ItemRegister(items[x]).register = ItemRegister(items[y]).register)
                   => /\ items[x].term.kind = "Variable"
                      /\ items[x].term = items[y].term

\* C31: in the register allocation of one term of root arity n, the i-th root
\* child has Argument(i), every Temporary index is n or more, every occurrence
\* of a variable has the variable's register, and no Temporary register is
\* shared by two different variables or by two different non-variable nodes.
C31_RegistersWellAllocated ==
    (phase = "traversing" /\ iterator.allocator # <<>>) => RegistersWellAllocated

\* The same for the terms whose structures have fewer than sixteen arguments.
C31_HoldsBelowSixteen ==
    (phase = "traversing" /\ iterator.allocator # <<>> /\ Slim(input.query))
        => RegistersWellAllocated

\* The nodes yielded so far have ids that differ from each other and, below the
\* root, from the id of the root.
DistinctIds ==
    /\ \A x, y \in 1..Len(iterator.yielded) :
          x # y => iterator.yielded[x].id # iterator.yielded[y].id
    /\ \A x \in 1..Len(iterator.yielded) :
          iterator.yielded[x].level > 0 => iterator.yielded[x].id # RootItem(input.query).id

\* C32: generate_term_id gives distinct ids to distinct nodes of a term, at every
\* argument position and every depth, structures of sixteen arguments or more
\* included.
C32_TermIdsInjective == phase = "traversing" => DistinctIds

\* The same for the terms whose structures have fewer than sixteen arguments.
C32_HoldsBelowSixteen == (phase = "traversing" /\ Slim(input.query)) => DistinctIds

BelowRoot == \A x \in 1..Len(iterator.yielded) : iterator.yielded[x].level >= 1

\* C33: the fact-order and the query-order traversal never yield the root: every
\* item they yield has level 1 or more, whatever the root is.
C33_RootIsNeverYielded ==
    (phase = "traversing" /\ iterator.order \in {"Fact", "Query"}) => BelowRoot

\* The same for the roots that are structures.
C33_HoldsForStructures ==
    (phase = "traversing" /\ iterator.order \in {"Fact", "Query"}
        /\ input.query.kind = "Structure") => BelowRoot

\* The nodes below `item` in post-order: for each argument from left to right
\* the nodes below it and then the argument itself.
RECURSIVE PostOrderBelow(_)
PostOrderBelow(item) ==
    Concat([i \in 1..Len(item.term.args) |->
               PostOrderBelow(Children(item)[i]) \o <<Children(item)[i]>>])

IsPostOrder ==
    LET expected == PostOrderBelow(RootItem(input.query))
        got == iterator.yielded
    IN /\ Len(got) <= Len(expected)
       /\ got = SubSeq(expected, 1, Len(got))
       /\ iterator.done => got = expected

\* C34: the query-order traversal yields every node below the root once, in
\* post-order with siblings from left to right, and then ends.
C34_QueryOrderIsPostOrder ==
    (phase = "traversing" /\ iterator.order = "Query") => IsPostOrder

\* The same for structure roots all of whose structures have fewer than sixteen
\* arguments.
C34_HoldsBelowSixteen ==
    (phase = "traversing" /\ iterator.order = "Query"
        /\ input.query.kind = "Structure" /\ Slim(input.query)) => IsPostOrder

\* The temporary variables of a rule that its head and its first goal share.
SharedTemporaries(rule) ==
    IF rule.goals = <<>> THEN {}
    ELSE (Range(LeftToRight(rule.head)) \cap Range(LeftToRight(rule.goals[1])))
            \ PermanentVariables(rule)

\* The register of every shared temporary variable is the same in the
\* allocation of the head and in the allocation of the first goal.
AllocationsAgree(rule, da) ==
    LET ids == {DescriptorOf(da, v) : v \in PermanentVariables(rule)}
    IN \A f \in PermanentAssignments(ids) :
          \A v \in SharedTemporaries(rule) :
              VariableRegister("Program", rule.head, da, f, v)
                  = VariableRegister("Query", rule.goals[1], da, f, v)

\* C35: in every rule, a temporary variable of the head that the first goal
\* uses is read by the goal from the register in which the head stored it.
C35_HeadAndFirstGoalAgree ==
    (phase = "compiling" /\ ~compiler.panicked) =>
        \A k \in 1..Len(added) :
            input.program[k].clause = "Rule" =>
                AllocationsAgree(input.program[k], compiler.descriptor_allocator)

\* The head of the environment frame at `address` holds what the Allocate that
\* found `found` wrote there.
HoldsFrame(env, found) ==
    LET Field(offset) == ReadWord(env.raw_stack, found.next_environment_address + offset)
    IN /\ Field(EnvNumVariables) = UsizeWord(found.num_variables)
       /\ Field(EnvContinuation) = UsizeWord(found.continuation)
       /\ Field(EnvPrevious) = UsizeWord(found.last_environment_address)

\* C36: when RetryMeElse or TrustMe resumes a choice point, the environment
\* frame that was current when the choice point was pushed is the current frame
\* again and its head still holds the permanent count, the continuation and the
\* previous-frame link that its own Allocate wrote, whatever has been popped
\* and pushed in between.
C36_FramesOutliveChoicePoints ==
    [][(phase = "running" /\ ~interpreter'.panicked
            /\ last'.op \in {"RetryMeElse", "TrustMe"} /\ frames'.live # <<>>) =>
          /\ interpreter'.environment_stack.last_environment_address =
                Top(frames'.live).next_environment_address
          /\ HoldsFrame(interpreter'.environment_stack, Top(frames'.live))]_vars

\* Every Reference cell of the heap names a cell of the heap.
HeapReferencesInside(m) ==
    \A a \in 1..Len(m.global_stack) :
        m.global_stack[a].tag = "Reference" => m.global_stack[a].v < Len(m.global_stack)

\* C37: in every state every Ref(a) stored in a heap cell has a below the heap
\* length, also right after RetryMeElse or TrustMe has cut the heap back.
C37_HeapReferencesInside ==
    (phase = "running" /\ ~interpreter.panicked) => HeapReferencesInside(interpreter)

\* Right after RetryMeElse or TrustMe has cut the heap back, no Ref of the heap
\* names a cell that was cut.
C37_HoldsAfterTruncation ==
    (phase = "running" /\ ~interpreter.panicked /\ last.op \in {"RetryMeElse", "TrustMe"})
        => HeapReferencesInside(interpreter)

UnifyOps == {"UnifyVariable", "UnifyValue"}

\* The number of Unify instructions that directly precede the instruction at
\* index i.
RECURSIVE UnifyRun(_, _)
UnifyRun(m, i) ==
    IF i >= 1 /\ At(m.instructions, i - 1).op \in UnifyOps THEN 1 + UnifyRun(m, i - 1) ELSE 0

\* step() is about to execute a Unify instruction in Read mode.
ReadsSubterm(m) ==
    /\ step_returns(m)
    /\ Fetched(m).op \in UnifyOps
    /\ m.mode = "Read"

\* S is the k-th argument cell of a structure of the functor of the GetStructure
\* k instructions back, and lies in the heap.
SubtermInStructure(m) ==
    LET k == UnifyRun(m, m.instruction_index) + 1
        S == m.next_sub_term_address
        Matched(get) ==
            /\ get.op = "GetStructure"
            /\ S - k >= 0
            /\ InHeap(m, S - k)
            /\ At(m.global_stack, S - k) = CellStructure(get.id)
            /\ k <= arity(m.descriptors, get.id)
    IN /\ m.instruction_index >= k
       /\ Matched(At(m.instructions, m.instruction_index - k))
       /\ S < HeapLen(m)

\* C38: whenever UnifyVariable or UnifyValue executes in Read mode, S addresses
\* an argument cell of the structure the most recent GetStructure matched:
\* a+1 <= S <= a+arity for the index a of its Functor cell, and S is below the
\* heap length.
C38_SubtermPointerInStructure ==
    (phase = "running" /\ ~interpreter.panicked /\ ReadsSubterm(interpreter))
        => SubtermInStructure(interpreter)

C38_Witness ==
    /\ phase = "running"
    /\ ~interpreter.panicked
    /\ ReadsSubterm(interpreter)
    /\ UnifyRun(interpreter, interpreter.instruction_index) >= 1
    /\ SubtermInStructure(interpreter)

\* No environment frame is on the environment stack.
EnvironmentEmpty(env) ==
    env.last_environment_address = 0 /\ env.next_environment_address = 0

\* step() has just returned false in the Normal state: a solution.
SolutionFound ==
    /\ phase = "running"
    /\ ~interpreter.panicked
    /\ last = Call_("step", FALSE)
    /\ interpreter.execution_state = "Normal"

TermFunctor(term) == <<term.name, TermArity(term)>>

\* The index of the first instruction after the last clause block: clause
\* blocks end in Proceed or Deallocate, the code of a query holds neither.
RECURSIVE QueryStart(_, _)
QueryStart(instructions, n) ==
    IF n = 0 \/ instructions[n].op \in {"Proceed", "Deallocate"} THEN n
    ELSE QueryStart(instructions, n - 1)

\* The Call at index i was emitted for a term of functor `functor` and enters
\* at the first instruction of a clause block with that head functor.
EntersClauseOf(i, functor) ==
    /\ compiler.instructions[i + 1].op = "Call"
    /\ compiler.instructions[i + 1].addr < Len(compiler.instructions)
    /\ \E k \in 1..Len(added) :
          /\ added[k] = compiler.instructions[i + 1].addr
          /\ TermFunctor(input.program[k].head) = functor

\* The indices of the Calls of the k-th clause block, in order.
BlockCalls(k) ==
    LET first == added[k]
        end == IF k < Len(added) THEN added[k + 1]
               ELSE QueryStart(compiler.instructions, Len(compiler.instructions))
    IN SelectSeq([x \in 1..(end - first) |-> first + x - 1],
                 LAMBDA i : compiler.instructions[i + 1].op = "Call")

CompiledStream ==
    LET stream == compiler.instructions
        start == QueryStart(stream, Len(stream))
    IN /\ \A k \in 1..Len(added) :
             /\ Len(BlockCalls(k)) = Len(input.program[k].goals)
             /\ \A j \in 1..Len(BlockCalls(k)) :
                   EntersClauseOf(BlockCalls(k)[j], TermFunctor(input.program[k].goals[j]))
       /\ interpreter.instruction_index = start
       /\ start < Len(stream)
       /\ \A i \in start..(Len(stream) - 2) : stream[i + 1].op # "Call"
       /\ EntersClauseOf(Len(stream) - 1, TermFunctor(input.query))

\* compile() has just returned and the interpreter has been built on its
\* artifact.
JustCompiled == phase = "running" /\ last = Call_("new", TRUE)

\* C40: after the clauses have been added and the query compiled, every Call of
\* the stream has an address below the stream length that is the first index
\* of a clause block whose head has the functor (name, arity) of the goal or
\* query the Call was emitted for; the start address is the index of the
\* query's first instruction and the query's Call is the last instruction.
C40_CallsEnterClauses == JustCompiled => CompiledStream

C40_Witness ==
    /\ JustCompiled
    /\ input.program = Loves
    /\ Len(BlockCalls(5)) = 2
    /\ CompiledStream

====
